---------------------------- MODULE Spec2Model ----------------------------
(***************************************************************************)
(* QuickMacro: the configuration store (config/settings.py), the hotkey    *)
(* manager (hotkey_manager.py), the action registry (actions/__init__.py,  *)
(* action_manager.py), the tray callback dispatch (tray_manager.py) and    *)
(* the application coordinator (main.py).                                  *)
(*                                                                         *)
(* Every operation is one action that runs the whole handler.  The         *)
(* variable `last` records the operation that ran last, its inputs, the    *)
(* state it started from and what it returned, so that statements about    *)
(* "after f(x)" are state predicates.                                      *)
(***************************************************************************)
EXTENDS Integers, Sequences, FiniteSets, TLC

VARIABLES
    config,       \* ConfigManager.config, see Config
    file,         \* the contents of config.json as last written by save_config
    hotkeys,      \* HotkeyManager.hotkeys: the keys of the dict
    callbacks,    \* HotkeyManager.callbacks: combination -> [callback, action_name]
    running,      \* HotkeyManager.running
    listeners,    \* number of threads inside HotkeyManager._listen_loop
    osHooks,      \* keyboard library: combination -> handlers installed, oldest first
    kbNames,      \* keyboard library: names that keyboard.remove_hotkey can resolve
    app_running,  \* QuickMacroApp.running
    loop,         \* the Qt event loop: "idle" before app.exec(), "exec", "quit"
    ui_hotkeys,   \* the mapping last passed to MainWindow.update_hotkeys
    in_shutdown,  \* threads inside shutdown() that found running set
    window_visible, \* MainWindow.isVisible()
    uiCalls,      \* UI-owned operations performed so far, each with its thread
    pending,      \* callbacks queued for the UI thread (QueuedConnection)
    system,       \* what the action bodies act on: [muted, locked]
    last          \* the operation that ran last

vars == <<config, file, hotkeys, callbacks, running, listeners, osHooks, kbNames,
          app_running, loop, ui_hotkeys, in_shutdown, window_visible, uiCalls, pending,
          system, last>>

cfgVars == <<config, file>>
mgrVars == <<hotkeys, callbacks, running, listeners, osHooks, kbNames>>
appVars == <<app_running, loop, ui_hotkeys, in_shutdown>>
uiVars  == <<window_visible, uiCalls, pending>>

-----------------------------------------------------------------------------
(* Bounds and the finite input sets.                                       *)

MaxInit == 1        \* longest configuration the store starts from
MaxBatch == 3       \* longest list handed to register_hotkeys_from_objects
MaxHooks == 2       \* most handlers the keyboard library holds for one combination
MaxThreads == 2     \* most listener threads alive at once
MaxPending == 2     \* most callbacks queued for the UI thread

\* Combinations the keyboard library can parse.
GoodCombos == {"ctrl+a", "ctrl+b"}

\* A combination the keyboard library cannot parse: add_hotkey always raises.
BadCombo == "%%invalid%%"

\* Strings s with `not s or not s.strip()`.
BlankStrings == {"", " "}

Combos == GoodCombos \cup {BadCombo}


\* Action ids that bindings refer to.
ConfigActions == {"lock_screen", "toggle_main_window"}

\* The strings the inputs use for a binding's combination and action.
HotkeyStrings == GoodCombos \cup {""}
ActionStrings == ConfigActions \cup {" "}

\* Hotkey objects (models/hotkey.py:12-18).
HotkeyObjects == [hotkey : HotkeyStrings, action : ActionStrings, enabled : BOOLEAN]

\* The empty dict.
EmptyMap == [k \in {} |-> ""]

\* d with d[k] = v (d[k] = v in Python).
Put(d, k, v) == [x \in DOMAIN d \cup {k} |-> IF x = k THEN v ELSE d[x]]

\* d without the key k (del d[k]).
Del(d, k) == [x \in DOMAIN d \ {k} |-> d[x]]

\* The value of `last` before any operation has run.
NoOp == [op |-> "none"]

-----------------------------------------------------------------------------
(* models/hotkey.py                                                        *)

\* Hotkey.validate: both strings are non-empty after strip().
Hotkey_validate(hk) ==
    IF hk.hotkey \in BlankStrings THEN FALSE
    ELSE IF hk.action \in BlankStrings THEN FALSE
    ELSE TRUE

\* Hotkey.to_dict: asdict over the three fields of the dataclass.
Hotkey_to_dict(hk) ==
    [hotkey |-> hk.hotkey, action |-> hk.action, enabled |-> hk.enabled]

\* Hotkey.from_dict: the three fields of the dict, extra keys dropped.
Hotkey_from_dict(d) ==
    [hotkey |-> d.hotkey, action |-> d.action, enabled |-> d.enabled]

-----------------------------------------------------------------------------
(* config/settings.py: ConfigManager.  A store is [config, file, raised]:  *)
(* the in-memory configuration, the file as last saved, and whether the    *)
(* call raised ValueError.                                                 *)

\* A configuration, in memory or parsed from the file.  present: it has a
\* "hotkeys" key; hotkeys: the list under it; isDict and legacy: the key holds
\* a mapping combination -> action instead, legacy being its items in order;
\* actions: it has an "actions" key; hasSettings and settings: the "settings"
\* key and the mapping under it.
FullConfig(present, hks, isDict, legacy, actions, hasSettings, settings) ==
    [present |-> present, hotkeys |-> hks, isDict |-> isDict, legacy |-> legacy,
     actions |-> actions, hasSettings |-> hasSettings, settings |-> settings]

\* A configuration in list form with nothing but its hotkeys.
Config(present, hks) == FullConfig(present, hks, FALSE, <<>>, FALSE, FALSE, EmptyMap)

Store(cfg, fl, r) == [config |-> cfg, file |-> fl, raised |-> r]

\* save_config: the file is overwritten with the configuration.
save_config(cfg) == cfg

\* The comprehension with == for !=: keeps the entry it should drop.
FilterOut_inverted(hks, combination) ==
    SelectSeq(hks, LAMBDA hk : hk.hotkey = combination)

\* The list comprehension of remove_hotkey (settings.py:150-154).
FilterOut(hks, combination) ==
    SelectSeq(hks, LAMBDA hk : hk.hotkey # combination)

\* remove_hotkey that never saves.
cm_remove_hotkey_no_save(cfg, fl, combination) ==
    IF ~cfg.present THEN Store(cfg, fl, FALSE)
    ELSE Store([cfg EXCEPT !.hotkeys = FilterOut(cfg.hotkeys, combination)], fl, FALSE)

\* remove_hotkey: filters the list; saves only when an entry went away.
cm_remove_hotkey(cfg, fl, combination) ==
    IF ~cfg.present THEN Store(cfg, fl, FALSE)
    ELSE LET kept == FilterOut(cfg.hotkeys, combination)
             new == [cfg EXCEPT !.hotkeys = kept]
         IN  IF Len(kept) < Len(cfg.hotkeys)
             THEN Store(new, save_config(new), FALSE)
             ELSE Store(new, fl, FALSE)

\* add_hotkey that appends without removing the entry of the same combination.
cm_add_hotkey_no_remove(cfg, fl, hk) ==
    IF ~Hotkey_validate(hk) THEN Store(cfg, fl, TRUE)
    ELSE LET base == IF cfg.present THEN cfg.hotkeys ELSE <<>>
             new == [cfg EXCEPT !.present = TRUE,
                                !.hotkeys = Append(base, Hotkey_to_dict(hk))]
         IN  Store(new, save_config(new), FALSE)

\* add_hotkey: validate, remove the entry of the same combination, append, save.
cm_add_hotkey(cfg, fl, hk) ==
    IF ~Hotkey_validate(hk) THEN Store(cfg, fl, TRUE)
    ELSE LET r == cm_remove_hotkey(cfg, fl, hk.hotkey)
             base == IF r.config.present THEN r.config.hotkeys ELSE <<>>
             new == [r.config EXCEPT !.present = TRUE,
                                     !.hotkeys = Append(base, Hotkey_to_dict(hk))]
         IN  Store(new, save_config(new), FALSE)

\* update_hotkey that removes the old combination before it validates.
cm_update_hotkey_remove_first(cfg, fl, old_hotkey, new_hotkey) ==
    cm_add_hotkey(cm_remove_hotkey(cfg, fl, old_hotkey).config,
                  cm_remove_hotkey(cfg, fl, old_hotkey).file, new_hotkey)

\* update_hotkey that leaves the old binding in place.
cm_update_hotkey_keeps_old(cfg, fl, old_hotkey, new_hotkey) ==
    IF ~Hotkey_validate(new_hotkey) THEN Store(cfg, fl, TRUE)
    ELSE cm_add_hotkey(cfg, fl, new_hotkey)

\* update_hotkey: validate, remove the old combination, then add_hotkey.
cm_update_hotkey(cfg, fl, old_hotkey, new_hotkey) ==
    IF ~Hotkey_validate(new_hotkey) THEN Store(cfg, fl, TRUE)
    ELSE LET r == cm_remove_hotkey(cfg, fl, old_hotkey)
         IN  cm_add_hotkey(r.config, r.file, new_hotkey)

RECURSIVE ValidObjects(_)
\* The loop of get_hotkeys: the entries that pass validate, in order.
ValidObjects(ds) ==
    IF ds = <<>> THEN <<>>
    ELSE LET hk == Hotkey_from_dict(Head(ds))
         IN  IF Hotkey_validate(hk) THEN <<hk>> \o ValidObjects(Tail(ds))
             ELSE ValidObjects(Tail(ds))

\* get_hotkeys: config.get("hotkeys", []) deserialised and validated.
cm_get_hotkeys(cfg) ==
    ValidObjects(IF cfg.present THEN cfg.hotkeys ELSE <<>>)

\* get_hotkeys_dict: combination -> action over the enabled entries; a later
\* entry of the same combination overwrites an earlier one.
cm_get_hotkeys_dict(cfg) ==
    LET hs == cm_get_hotkeys(cfg)
        on == {i \in 1..Len(hs) : hs[i].enabled}
        keys == {hs[i].hotkey : i \in on}
    IN  [k \in keys |->
            hs[CHOOSE i \in on : hs[i].hotkey = k
                                 /\ \A j \in on : hs[j].hotkey = k => j <= i].action]

-----------------------------------------------------------------------------
(* The configuration store on its own.                                     *)

\* Lists of at most n entries over S.
SeqsUpTo(S, n) == UNION {[1..k -> S] : k \in 0..n}

\* At most one entry per combination.
UniqueCombos(hks) ==
    \A i, j \in 1..Len(hks) : hks[i].hotkey = hks[j].hotkey => i = j

\* The configurations a session starts from: no hotkeys key at all, or a list
\* with at most one entry per combination.
InitialConfigs ==
    {Config(FALSE, <<>>)}
    \cup {Config(TRUE, s) :
             s \in {t \in SeqsUpTo(HotkeyObjects, MaxInit) : UniqueCombos(t)}}

QuietManager ==
    /\ hotkeys = {}
    /\ callbacks = EmptyMap
    /\ running = FALSE
    /\ listeners = 0
    /\ osHooks = [c \in Combos |-> <<>>]
    /\ kbNames = {}

QuietApp ==
    /\ app_running = FALSE
    /\ loop = "idle"
    /\ ui_hotkeys = EmptyMap
    /\ in_shutdown = {}

QuietUi ==
    /\ window_visible = FALSE
    /\ uiCalls = {}
    /\ pending = <<>>

QuietSystem == system = [muted |-> FALSE, locked |-> FALSE]

InitConfig ==
    /\ config \in InitialConfigs
    /\ file = config
    /\ QuietManager /\ QuietApp /\ QuietUi /\ QuietSystem
    /\ last = NoOp

AddHotkey(hk) ==
    LET r == cm_add_hotkey(config, file, hk)
    IN  /\ config' = r.config
        /\ file' = r.file
        /\ last' = [op |-> "add_hotkey", hk |-> hk, old |-> hk.hotkey,
                    pre |-> config, preFile |-> file, raised |-> r.raised]
        /\ UNCHANGED <<mgrVars, appVars, uiVars, system>>

UpdateHotkey(old_hotkey, hk) ==
    LET r == cm_update_hotkey(config, file, old_hotkey, hk)
    IN  /\ config' = r.config
        /\ file' = r.file
        /\ last' = [op |-> "update_hotkey", hk |-> hk, old |-> old_hotkey,
                    pre |-> config, preFile |-> file, raised |-> r.raised]
        /\ UNCHANGED <<mgrVars, appVars, uiVars, system>>

RemoveHotkey(combination) ==
    LET r == cm_remove_hotkey(config, file, combination)
    IN  /\ config' = r.config
        /\ file' = r.file
        /\ last' = [op |-> "remove_hotkey", hk |-> [hotkey |-> combination,
                        action |-> "", enabled |-> FALSE], old |-> combination,
                    pre |-> config, preFile |-> file, raised |-> r.raised]
        /\ UNCHANGED <<mgrVars, appVars, uiVars, system>>

NextConfig ==
    \/ \E hk \in HotkeyObjects : AddHotkey(hk)
    \/ \E c \in HotkeyStrings, hk \in HotkeyObjects : UpdateHotkey(c, hk)
    \/ \E c \in HotkeyStrings : RemoveHotkey(c)

SpecConfig == InitConfig /\ [][NextConfig]_vars

-----------------------------------------------------------------------------
(* Claims about the configuration store.                                   *)

\* The entries of the other combinations, in order.
OthersOf(hks, c) ==
    LET keep == {i \in 1..Len(hks) : hks[i].hotkey # c}
        F[i \in 0..Len(hks)] ==
            IF i = 0 THEN <<>>
            ELSE IF i \in keep THEN Append(F[i - 1], hks[i]) ELSE F[i - 1]
    IN  F[Len(hks)]

\* The entries stored under one combination.
EntriesFor(cfg, c) == {i \in 1..Len(cfg.hotkeys) : cfg.hotkeys[i].hotkey = c}

\* C1: after every add_hotkey / update_hotkey / remove_hotkey, from a start
\* with at most one entry per combination, the stored list still has at most
\* one entry per combination.
C1_OneEntryPerCombination == UniqueCombos(config.hotkeys)

\* C1 witness: an add or update has just replaced the binding of a combination
\* that was already bound, and the list holds two bindings.
C1_Witness ==
    /\ last.op \in {"add_hotkey", "update_hotkey"}
    /\ ~last.raised
    /\ EntriesFor(last.pre, last.hk.hotkey) # {}
    /\ Len(config.hotkeys) >= 2

\* C2: add_hotkey on a combination replaces its binding: afterwards exactly
\* one entry has that combination, it is the entry just added (the last add
\* wins), and the entries of every other combination are as they were, in
\* the same order.
C2_AddReplaces ==
    (last.op = "add_hotkey" /\ ~last.raised) =>
        /\ Cardinality(EntriesFor(config, last.hk.hotkey)) = 1
        /\ \A i \in EntriesFor(config, last.hk.hotkey) :
               config.hotkeys[i] = Hotkey_to_dict(last.hk)
        /\ OthersOf(config.hotkeys, last.hk.hotkey)
               = OthersOf(last.pre.hotkeys, last.hk.hotkey)

\* C2 witness: the second add of a combination, with another action than the
\* one it was bound to, while another combination is bound too.
C2_Witness ==
    /\ last.op = "add_hotkey" /\ ~last.raised
    /\ \E i \in EntriesFor(last.pre, last.hk.hotkey) :
           last.pre.hotkeys[i].action # last.hk.action
    /\ OthersOf(last.pre.hotkeys, last.hk.hotkey) # <<>>

-----------------------------------------------------------------------------
(* The keyboard library as hotkey_manager.py uses it.  A keyboard state is *)
(* [osHooks, kbNames]: the handlers installed per combination, and the     *)
(* names for which the library holds a remover.  A handler is the action   *)
(* id its closure carries.                                                 *)

Kb(hooks, names, r) == [osHooks |-> hooks, kbNames |-> names, raised |-> r]

\* keyboard.add_hotkey(hotkey, callback): raises on a combination it cannot
\* parse or when the OS refuses the hook (osOk false); otherwise appends the
\* handler and makes the name resolve to the remover of this handler.
kb_add_hotkey(hooks, names, hotkey, callback, osOk) ==
    IF hotkey \notin GoodCombos \/ ~osOk THEN Kb(hooks, names, TRUE)
    ELSE Kb([hooks EXCEPT ![hotkey] = Append(@, callback)],
            names \cup {hotkey}, FALSE)

\* keyboard.remove_hotkey(hotkey): raises KeyError on an unknown name and
\* ValueError when the handler is gone already; otherwise removes the handler
\* installed last under the name and forgets the name.
kb_remove_hotkey(hooks, names, hotkey) ==
    IF hotkey \notin names THEN Kb(hooks, names, TRUE)
    ELSE IF hooks[hotkey] = <<>> THEN Kb(hooks, names, TRUE)
    ELSE Kb([hooks EXCEPT ![hotkey] = SubSeq(@, 1, Len(@) - 1)],
            names \ {hotkey}, FALSE)

\* keyboard.unhook_all(): every handler is dropped; the names stay.
kb_unhook_all(hooks, names) ==
    Kb([c \in DOMAIN hooks |-> <<>>], names, FALSE)

-----------------------------------------------------------------------------
(* hotkey_manager.py: HotkeyManager.  A manager state is                   *)
(* [hotkeys, callbacks, osHooks, kbNames].                                 *)

Mgr(hs, cbs, hooks, names) ==
    [hotkeys |-> hs, callbacks |-> cbs, osHooks |-> hooks, kbNames |-> names]

ThisManager == Mgr(hotkeys, callbacks, osHooks, kbNames)

\* `action_name or hotkey`
NameOr(action_name, hotkey) == IF action_name = "" THEN hotkey ELSE action_name

\* register_hotkey: store the callback, install the hook, record the hotkey;
\* an exception of keyboard.add_hotkey is caught and False returned.
hm_register_hotkey(m, hotkey, callback, action_name, osOk) ==
    LET cbs == Put(m.callbacks, hotkey,
                   [callback |-> callback, action_name |-> NameOr(action_name, hotkey)])
        k == kb_add_hotkey(m.osHooks, m.kbNames, hotkey, callback, osOk)
    IN  IF k.raised
        THEN [m |-> Mgr(m.hotkeys, cbs, m.osHooks, m.kbNames), ret |-> FALSE]
        ELSE [m |-> Mgr(m.hotkeys \cup {hotkey}, cbs, k.osHooks, k.kbNames),
              ret |-> TRUE]

\* unregister_hotkey that drops the callback of a hotkey it does not hold.
hm_unregister_hotkey_eager(m, hotkey) ==
    IF hotkey \in m.hotkeys
    THEN LET k == kb_remove_hotkey(m.osHooks, m.kbNames, hotkey)
         IN  IF k.raised THEN [m |-> m, ret |-> FALSE]
             ELSE [m |-> Mgr(m.hotkeys \ {hotkey}, Del(m.callbacks, hotkey),
                             k.osHooks, k.kbNames), ret |-> TRUE]
    ELSE [m |-> Mgr(m.hotkeys, EmptyMap, m.osHooks, m.kbNames), ret |-> FALSE]

\* unregister_hotkey: only for a hotkey in self.hotkeys; an exception of
\* keyboard.remove_hotkey is caught before anything is deleted.
hm_unregister_hotkey(m, hotkey) ==
    IF hotkey \in m.hotkeys
    THEN LET k == kb_remove_hotkey(m.osHooks, m.kbNames, hotkey)
         IN  IF k.raised THEN [m |-> m, ret |-> FALSE]
             ELSE [m |-> Mgr(m.hotkeys \ {hotkey}, Del(m.callbacks, hotkey),
                             k.osHooks, k.kbNames), ret |-> TRUE]
    ELSE [m |-> m, ret |-> FALSE]

RECURSIVE hm_register_from(_, _, _, _)
\* The loop of register_hotkeys_from_objects from entry i on: disabled and
\* invalid entries are skipped, the others registered with a callback that
\* carries the entry's action.  rejected holds the entries the OS refuses.
hm_register_from(m, objs, rejected, i) ==
    IF i > Len(objs) THEN [m |-> m, count |-> 0, tried |-> {}]
    ELSE IF ~objs[i].enabled THEN hm_register_from(m, objs, rejected, i + 1)
    ELSE IF ~Hotkey_validate(objs[i]) THEN hm_register_from(m, objs, rejected, i + 1)
    ELSE LET r == hm_register_hotkey(m, objs[i].hotkey, objs[i].action,
                                     objs[i].action, i \notin rejected)
             rest == hm_register_from(r.m, objs, rejected, i + 1)
         IN  [m |-> rest.m,
              count |-> rest.count + (IF r.ret THEN 1 ELSE 0),
              tried |-> rest.tried \cup {i}]

RECURSIVE hm_register_until_failure(_, _, _, _)
\* The loop leaving at the first registration that fails.
hm_register_until_failure(m, objs, rejected, i) ==
    IF i > Len(objs) THEN [m |-> m, count |-> 0, tried |-> {}]
    ELSE IF ~objs[i].enabled THEN hm_register_until_failure(m, objs, rejected, i + 1)
    ELSE IF ~Hotkey_validate(objs[i])
         THEN hm_register_until_failure(m, objs, rejected, i + 1)
    ELSE LET r == hm_register_hotkey(m, objs[i].hotkey, objs[i].action,
                                     objs[i].action, i \notin rejected)
             rest == hm_register_until_failure(r.m, objs, rejected, i + 1)
         IN  IF ~r.ret THEN [m |-> r.m, count |-> 0, tried |-> {i}]
             ELSE [m |-> rest.m, count |-> rest.count + 1,
                   tried |-> rest.tried \cup {i}]

RECURSIVE hm_register_variant(_, _, _, _, _, _)
\* The loop with a closure that reads the loop variable when it is called
\* (late), or with the test of the enabled flag left out (all).
hm_register_variant(m, objs, rejected, i, late, all) ==
    IF i > Len(objs) THEN [m |-> m, count |-> 0, tried |-> {}]
    ELSE IF ~all /\ ~objs[i].enabled
         THEN hm_register_variant(m, objs, rejected, i + 1, late, all)
    ELSE IF ~Hotkey_validate(objs[i])
         THEN hm_register_variant(m, objs, rejected, i + 1, late, all)
    ELSE LET r == hm_register_hotkey(m, objs[i].hotkey,
                                     IF late THEN objs[Len(objs)].action
                                     ELSE objs[i].action,
                                     objs[i].action, i \notin rejected)
             rest == hm_register_variant(r.m, objs, rejected, i + 1, late, all)
         IN  [m |-> rest.m,
              count |-> rest.count + (IF r.ret THEN 1 ELSE 0),
              tried |-> rest.tried \cup {i}]

\* register_hotkeys_from_objects whose lambda has no default argument.
hm_register_hotkeys_from_objects_late_binding(m, objs, rejected) ==
    hm_register_variant(m, objs, rejected, 1, TRUE, FALSE)

\* register_hotkeys_from_objects that does not look at the enabled flag.
hm_register_hotkeys_from_objects_all(m, objs, rejected) ==
    hm_register_variant(m, objs, rejected, 1, FALSE, TRUE)

\* register_hotkeys_from_objects that gives up at the first failure.
hm_register_hotkeys_from_objects_abort(m, objs, rejected) ==
    hm_register_until_failure(m, objs, rejected, 1)

\* register_hotkeys_from_objects
hm_register_hotkeys_from_objects(m, objs, rejected) ==
    hm_register_from(m, objs, rejected, 1)

RECURSIVE hm_clear_keys(_, _)
\* The loop of clear_all_hotkeys over list(self.hotkeys.keys()).
hm_clear_keys(m, keys) ==
    IF keys = {} THEN m
    ELSE LET k == CHOOSE x \in keys : TRUE
         IN  hm_clear_keys(hm_unregister_hotkey(m, k).m, keys \ {k})

\* clear_all_hotkeys
hm_clear_all_hotkeys(m) == hm_clear_keys(m, m.hotkeys)

\* get_registered_hotkeys: hotkey -> action_name over self.callbacks.
hm_get_registered_hotkeys(m) ==
    [h \in DOMAIN m.callbacks |-> m.callbacks[h].action_name]

\* is_hotkey_registered
hm_is_hotkey_registered(m, hotkey) == hotkey \in m.hotkeys

\* No handler list grows beyond the bound.
HooksWithinBound(m) == \A c \in DOMAIN m.osHooks : Len(m.osHooks[c]) <= MaxHooks

SetManager(m) ==
    /\ hotkeys' = m.hotkeys
    /\ callbacks' = m.callbacks
    /\ osHooks' = m.osHooks
    /\ kbNames' = m.kbNames

-----------------------------------------------------------------------------
(* The hotkey manager on its own: single registrations, the listener.      *)

InitManager ==
    /\ config = Config(TRUE, <<>>)
    /\ file = config
    /\ QuietManager /\ QuietApp /\ QuietUi /\ QuietSystem
    /\ last = NoOp

\* register_hotkey(hotkey, callback, action_name); refused: the OS refuses the hook.
RegisterHotkey(hotkey, callback, action_name, refused) ==
    LET r == hm_register_hotkey(ThisManager, hotkey, callback, action_name, ~refused)
    IN  /\ HooksWithinBound(r.m)
        /\ SetManager(r.m)
        /\ last' = [op |-> "register_hotkey", hotkey |-> hotkey, ret |-> r.ret,
                    known |-> hotkey \in DOMAIN callbacks]
        /\ UNCHANGED <<cfgVars, running, listeners, appVars, uiVars, system>>

\* unregister_hotkey(hotkey)
UnregisterHotkey(hotkey) ==
    LET r == hm_unregister_hotkey(ThisManager, hotkey)
    IN  /\ SetManager(r.m)
        /\ last' = [op |-> "unregister_hotkey", hotkey |-> hotkey, ret |-> r.ret,
                known |-> FALSE]
        /\ UNCHANGED <<cfgVars, running, listeners, appVars, uiVars, system>>

\* clear_all_hotkeys()
ClearAllHotkeys ==
    /\ SetManager(hm_clear_all_hotkeys(ThisManager))
    /\ last' = [op |-> "clear_all_hotkeys", hotkey |-> "", ret |-> TRUE,
                known |-> FALSE]
    /\ UNCHANGED <<cfgVars, running, listeners, appVars, uiVars, system>>

\* start_listener without its early return.
hm_start_listener_always(isRunning, threads) ==
    [running |-> TRUE, listeners |-> threads + 1]

\* start_listener on the flag and the threads in _listen_loop: nothing when
\* running; else sets the flag and starts a thread.
hm_start_listener(isRunning, threads) ==
    IF isRunning THEN [running |-> isRunning, listeners |-> threads]
    ELSE [running |-> TRUE, listeners |-> threads + 1]

\* start_listener()
StartListener ==
    /\ running \/ listeners < MaxThreads
    /\ \E r \in {hm_start_listener(running, listeners)} :
          running' = r.running /\ listeners' = r.listeners
    /\ last' = [op |-> "start_listener", hotkey |-> "", ret |-> ~running,
                known |-> FALSE]
    /\ UNCHANGED <<cfgVars, hotkeys, callbacks, osHooks, kbNames, appVars, uiVars,
                   system>>

\* stop_listener on a manager state: the hooks after keyboard.unhook_all().
hm_stop_listener(m, isRunning) ==
    IF ~isRunning THEN m
    ELSE LET k == kb_unhook_all(m.osHooks, m.kbNames)
         IN  Mgr(m.hotkeys, m.callbacks, k.osHooks, k.kbNames)

\* stop_listener(): nothing when not running; else clears the flag and unhooks.
StopListener ==
    /\ SetManager(hm_stop_listener(ThisManager, running))
    /\ running' = FALSE
    /\ last' = [op |-> "stop_listener", hotkey |-> "", ret |-> running,
                known |-> FALSE]
    /\ UNCHANGED <<cfgVars, listeners, appVars, uiVars, system>>

\* A loop that never looks at the flag.
listen_loop_forever(isRunning) == TRUE

\* `while self.running:` of _listen_loop, evaluated after each sleep.
listen_loop_continues(isRunning) == isRunning

\* _listen_loop: a thread wakes up, finds the flag cleared and leaves.
ListenerExit ==
    /\ listeners > 0
    /\ ~listen_loop_continues(running)
    /\ listeners' = listeners - 1
    /\ UNCHANGED <<cfgVars, hotkeys, callbacks, running, osHooks, kbNames, appVars,
                   uiVars, system, last>>

\* The (callback, action_name) pairs register_hotkey is called with: a name,
\* or none so that the hotkey stands in for it.
RegisterInputs ==
    {[callback |-> "lock_screen", action_name |-> "lock_screen"],
     [callback |-> "toggle_main_window", action_name |-> ""]}

NextManager ==
    \/ \E h \in GoodCombos, r \in RegisterInputs, refused \in BOOLEAN :
           RegisterHotkey(h, r.callback, r.action_name, refused)
    \/ \E h \in GoodCombos : UnregisterHotkey(h)
    \/ ClearAllHotkeys
    \/ StartListener
    \/ StopListener
    \/ ListenerExit

SpecManager == InitManager /\ [][NextManager]_vars

-----------------------------------------------------------------------------
(* Batch registration on its own.                                          *)

\* The entries the lists are built from: two well-formed bindings with
\* different actions, one whose combination the keyboard library cannot
\* parse, a disabled one, and two that fail Hotkey.validate.
BatchObjects ==
    {[hotkey |-> "ctrl+a", action |-> "lock_screen", enabled |-> TRUE],
     [hotkey |-> "ctrl+b", action |-> "toggle_main_window", enabled |-> TRUE],
     [hotkey |-> BadCombo, action |-> "toggle_main_window", enabled |-> TRUE],
     [hotkey |-> "ctrl+a", action |-> "toggle_main_window", enabled |-> FALSE],
     [hotkey |-> "", action |-> "lock_screen", enabled |-> TRUE],
     [hotkey |-> "ctrl+b", action |-> " ", enabled |-> TRUE]}

BatchLists == SeqsUpTo(BatchObjects, MaxBatch)

\* The entries whose combination the keyboard library can parse: the ones
\* for which it is the OS that decides.
Parseable(objs) == {i \in 1..Len(objs) : objs[i].hotkey \in GoodCombos}

\* register_hotkeys_from_objects(objs, cb); rejected: the entries whose hook
\* the OS refuses.
RegisterFromObjects(objs, rejected) ==
    LET r == hm_register_hotkeys_from_objects(ThisManager, objs, rejected)
    IN  /\ HooksWithinBound(r.m)
        /\ SetManager(r.m)
        /\ last' = [op |-> "register_hotkeys_from_objects", objs |-> objs,
                    rejected |-> rejected, ret |-> r.count, tried |-> r.tried,
                    pre |-> ThisManager]
        /\ UNCHANGED <<cfgVars, running, listeners, appVars, uiVars, system>>

\* As in main.py, where clear_all_hotkeys runs between any two batches
\* (main.py:195-199, 221-225, 245-249) and start registers one batch into the
\* fresh manager (main.py:308).
NextBatch ==
    \/ /\ last.op # "register_hotkeys_from_objects"
       /\ \E objs \in BatchLists : \E rejected \in SUBSET Parseable(objs) :
              RegisterFromObjects(objs, rejected)
    \/ ClearAllHotkeys

SpecBatch == InitManager /\ [][NextBatch]_vars

\* The entries of a list that are enabled and pass Hotkey.validate.
Eligible(objs) ==
    {i \in 1..Len(objs) : objs[i].enabled /\ objs[i].hotkey \notin BlankStrings
                          /\ objs[i].action \notin BlankStrings}

\* The eligible entries whose hook the OS takes.
Accepted(objs, rejected) ==
    {i \in Eligible(objs) : objs[i].hotkey \in GoodCombos /\ i \notin rejected}

\* C4: register_hotkeys_from_objects tries every enabled valid entry even
\* when the OS refuses some, registers every one the OS accepts (hotkeys map,
\* callbacks map and a handler carrying its action), and returns exactly the
\* number of registrations that succeeded.
C4_BatchIsResilient ==
    last.op = "register_hotkeys_from_objects" =>
        /\ last.tried = Eligible(last.objs)
        /\ last.ret = Cardinality(Accepted(last.objs, last.rejected))
        /\ \A i \in Accepted(last.objs, last.rejected) :
               /\ last.objs[i].hotkey \in hotkeys
               /\ last.objs[i].hotkey \in DOMAIN callbacks
               /\ \E k \in 1..Len(osHooks[last.objs[i].hotkey]) :
                      osHooks[last.objs[i].hotkey][k] = last.objs[i].action

\* C4 witness: a list whose first eligible entry the OS refused and in which
\* a later entry was registered all the same.
C4_Witness ==
    /\ last.op = "register_hotkeys_from_objects"
    /\ \E i, j \in Eligible(last.objs) :
           /\ i < j
           /\ i \notin Accepted(last.objs, last.rejected)
           /\ j \in Accepted(last.objs, last.rejected)
           /\ last.objs[j].hotkey \in hotkeys
    /\ last.ret >= 1
    /\ last.ret < Cardinality(Eligible(last.objs))

-----------------------------------------------------------------------------
(* Claims about single registrations and the listener.                     *)

\* Some handler is installed for the combination.
Hooked(c) == osHooks[c] # <<>>

\* C3: a registration that fails leaves the manager as it was: a combination
\* the manager did not know before the failed call is afterwards in neither
\* the hotkeys map nor the callbacks map, so neither is_hotkey_registered nor
\* get_registered_hotkeys reports it.
C3_FailedRegistrationLeavesNoTrace ==
    (last.op = "register_hotkey" /\ ~last.ret /\ ~last.known) =>
        /\ ~hm_is_hotkey_registered(ThisManager, last.hotkey)
        /\ last.hotkey \notin DOMAIN hm_get_registered_hotkeys(ThisManager)

\* C6: unregister_hotkey on a combination that is not registered changes
\* nothing: the hotkeys map, the callbacks map and the installed hooks of
\* every combination are as before the call.
C6_UnregisterUnknownIsNoOp ==
    [][\A h \in GoodCombos :
          (UnregisterHotkey(h) /\ ~hm_is_hotkey_registered(ThisManager, h)) =>
              UNCHANGED <<hotkeys, callbacks, osHooks, kbNames, running, listeners>>]_vars

\* C6 witness: unregister_hotkey has just returned for a combination that is
\* not registered, while another combination is registered and hooked.
C6_Witness ==
    /\ last.op = "unregister_hotkey" /\ ~last.ret
    /\ ~hm_is_hotkey_registered(ThisManager, last.hotkey)
    /\ \E c \in GoodCombos \ {last.hotkey} :
           /\ hm_is_hotkey_registered(ThisManager, c)
           /\ c \in DOMAIN callbacks
           /\ Hooked(c)

\* C7: after stop_listener no combination is registered: no hook is
\* installed, is_hotkey_registered is false for every combination and
\* get_registered_hotkeys is empty, whether or not the listener was running.
C7_StoppedMeansUnregistered ==
    last.op = "stop_listener" =>
        /\ \A c \in Combos : ~Hooked(c)
        /\ \A c \in Combos : ~hm_is_hotkey_registered(ThisManager, c)
        /\ DOMAIN hm_get_registered_hotkeys(ThisManager) = {}

-----------------------------------------------------------------------------
(* main.py: QuickMacroApp, the coordinator.                                *)

\* A UI-owned operation and the thread that performed it.
UiCall(op, thread) == [op |-> op, thread |-> thread]

\* The re-registration of every edit handler (main.py:194-199): clear, read
\* the configuration, register the batch.
app_reregister(m, cfg, rejected) ==
    hm_register_hotkeys_from_objects(hm_clear_all_hotkeys(m), cm_get_hotkeys(cfg),
                                     rejected)

\* What an edit handler does once the store has taken the change, or its
\* except branch when the store raised: a log line and nothing else.
AppAfterStore(op, st, rejected) ==
    IF st.raised
    THEN /\ rejected = {}
         /\ UNCHANGED <<cfgVars, mgrVars, appVars, window_visible, pending, system>>
         /\ uiCalls' = uiCalls \cup {UiCall("add_log_message", "main")}
         /\ last' = [op |-> op, raised |-> TRUE, rejected |-> {}]
    ELSE \E r \in {app_reregister(ThisManager, st.config, rejected)} :
             /\ HooksWithinBound(r.m)
             /\ config' = st.config
             /\ file' = st.file
             /\ SetManager(r.m)
             /\ ui_hotkeys' = hm_get_registered_hotkeys(r.m)
             /\ uiCalls' = uiCalls \cup {UiCall("update_hotkeys", "main"),
                                         UiCall("add_log_message", "main")}
             /\ last' = [op |-> op, raised |-> FALSE, rejected |-> rejected]
             /\ UNCHANGED <<running, listeners, app_running, loop, in_shutdown,
                            window_visible, pending, system>>

\* _add_hotkey(hotkey, action), called by the window on the UI thread.
AppAddHotkey(hotkey, action, rejected) ==
    /\ loop = "exec"
    /\ \E st \in {cm_add_hotkey(config, file,
                    [hotkey |-> hotkey, action |-> action, enabled |-> TRUE])} :
           /\ rejected \subseteq Parseable(cm_get_hotkeys(st.config))
           /\ AppAfterStore("_add_hotkey", st, rejected)

\* _modify_hotkey(old_hotkey, new_hotkey, action)
AppModifyHotkey(old_hotkey, new_hotkey, action, rejected) ==
    /\ loop = "exec"
    /\ \E st \in {cm_update_hotkey(config, file, old_hotkey,
                    [hotkey |-> new_hotkey, action |-> action, enabled |-> TRUE])} :
           /\ rejected \subseteq Parseable(cm_get_hotkeys(st.config))
           /\ AppAfterStore("_modify_hotkey", st, rejected)

\* _remove_hotkey(hotkey)
AppRemoveHotkey(hotkey, rejected) ==
    /\ loop = "exec"
    /\ \E st \in {cm_remove_hotkey(config, file, hotkey)} :
           /\ rejected \subseteq Parseable(cm_get_hotkeys(st.config))
           /\ AppAfterStore("_remove_hotkey", st, rejected)

\* run(): start() and then app.exec().  start registers the configured
\* bindings, starts the listener, shows the window unless start_minimized,
\* sets running and refreshes the status and the hotkeys shown.
AppStart(rejected, minimized) ==
    /\ loop = "idle"
    /\ ~app_running
    /\ ~running
    /\ listeners < MaxThreads
    /\ rejected \subseteq Parseable(cm_get_hotkeys(config))
    /\ \E r \in {hm_register_hotkeys_from_objects(ThisManager, cm_get_hotkeys(config),
                                                    rejected)} :
           /\ HooksWithinBound(r.m)
           /\ SetManager(r.m)
           /\ ui_hotkeys' = hm_get_registered_hotkeys(r.m)
    /\ running' = TRUE
    /\ listeners' = listeners + 1
    /\ window_visible' = ~minimized
    /\ app_running' = TRUE
    /\ loop' = "exec"
    /\ uiCalls' = uiCalls \cup {UiCall("update_status", "main"),
                                UiCall("update_hotkeys", "main")}
                          \cup (IF minimized THEN {} ELSE {UiCall("show", "main")})
    /\ last' = [op |-> "start", raised |-> FALSE, rejected |-> rejected]
    /\ UNCHANGED <<cfgVars, in_shutdown, pending, system>>

\* shutdown(): nothing unless running; else clears the flag and posts
\* _do_shutdown to the event loop (QTimer.singleShot(0, ...)).
AppShutdown ==
    /\ loop = "exec"
    /\ Len(pending) < MaxPending
    /\ IF app_running
       THEN /\ app_running' = FALSE
            /\ pending' = Append(pending, "_do_shutdown")
       ELSE UNCHANGED <<app_running, pending>>
    /\ last' = [op |-> "shutdown", raised |-> FALSE, rejected |-> {}]
    /\ UNCHANGED <<cfgVars, mgrVars, loop, ui_hotkeys, in_shutdown, window_visible,
                   uiCalls, system>>

\* _do_shutdown(), taken from the event loop: stops the listener, closes the
\* window (closeEvent hides it) and quits the loop.
AppDoShutdown ==
    /\ loop = "exec"
    /\ "main" \notin in_shutdown   \* the main thread is not inside shutdown()
    /\ pending # <<>>
    /\ Head(pending) = "_do_shutdown"
    /\ pending' = Tail(pending)
    /\ SetManager(hm_stop_listener(ThisManager, running))
    /\ running' = FALSE
    /\ window_visible' = FALSE
    /\ uiCalls' = uiCalls \cup {UiCall("close", "main")}
    /\ loop' = "quit"
    /\ last' = [op |-> "_do_shutdown", raised |-> FALSE, rejected |-> {}]
    /\ UNCHANGED <<cfgVars, listeners, app_running, ui_hotkeys, in_shutdown, system>>

Init ==
    /\ config \in InitialConfigs
    /\ file = config
    /\ QuietManager /\ QuietApp /\ QuietUi /\ QuietSystem
    /\ last = NoOp

\* The subsets of the positions of the list get_hotkeys returns: it holds
\* valid entries only, at most one per combination.
RejectSets == SUBSET (1..Cardinality(GoodCombos))

Next ==
    \/ \E rejected \in RejectSets, minimized \in BOOLEAN : AppStart(rejected, minimized)
    \/ \E h \in HotkeyStrings, a \in ActionStrings, rejected \in RejectSets :
           AppAddHotkey(h, a, rejected)
    \/ \E o \in HotkeyStrings, h \in HotkeyStrings, a \in ActionStrings,
          rejected \in RejectSets : AppModifyHotkey(o, h, a, rejected)
    \/ \E h \in HotkeyStrings, rejected \in RejectSets : AppRemoveHotkey(h, rejected)
    \/ AppShutdown
    \/ AppDoShutdown
    \/ ListenerExit

Spec == Init /\ [][Next]_vars

-----------------------------------------------------------------------------
(* actions/: the action plugins, their parameter validation, the registry  *)
(* and the ActionManager in front of it.                                   *)

\* Python values: a string, a number (in tenths, 5 is 0.5) or a bool, which
\* Python also takes for the int 1 or 0.  A float may be the NaN, which
\* compares False with every number.
Str(x) == [t |-> "str", s |-> x, n |-> 0, nan |-> FALSE]
Num(k) == [t |-> "num", s |-> "", n |-> k, nan |-> FALSE]
Bool(b) == [t |-> "bool", s |-> "", n |-> IF b THEN 10 ELSE 0, nan |-> FALSE]
NaN == [t |-> "num", s |-> "", n |-> 0, nan |-> TRUE]

\* The parameters argument: None, a dict, or a value that is no mapping
\* (a list of names).
ParamsNone == [kind |-> "none", d |-> EmptyMap, items |-> {}]
ParamsDict(d) == [kind |-> "dict", d |-> d, items |-> {}]
ParamsList(items) == [kind |-> "list", d |-> EmptyMap, items |-> items]

\* What a Python call hands back.
PyTrue == "True"
PyFalse == "False"
PyNone == "None"

\* Optional[float]: a bound that is set, or None.
Bound(v) == [set |-> TRUE, v |-> v]
NoBound == [set |-> FALSE, v |-> 0]

\* The dataclass ActionParameter (label, description and default_value
\* take no part in validation).
ActionParameterOf(name, type, required, choices, min_value, max_value) ==
    [name |-> name, type |-> type, required |-> required, choices |-> choices,
     min_value |-> min_value, max_value |-> max_value]

\* ActionParameter as the built-in actions declare it: required, and a
\* number bounded by 0.0 and 1.0.
ActionParameter(name, type, choices, bounded) ==
    ActionParameterOf(name, type, TRUE, choices,
                      IF bounded THEN Bound(0) ELSE NoBound,
                      IF bounded THEN Bound(10) ELSE NoBound)

\* The modules of the actions package.
ActionIds ==
    {"lock_screen", "mute_app", "set_app_volume", "toggle_active_app_mute",
     "toggle_main_window", "toggle_system_mute"}

\* BaseAction.parameters and its overrides.
parameters_of(id) ==
    IF id = "set_app_volume"
    THEN <<ActionParameter("app_name", "string", {}, FALSE),
           ActionParameter("volume", "number", {}, TRUE)>>
    ELSE IF id = "mute_app"
    THEN <<ActionParameter("app_name", "string", {}, FALSE),
           ActionParameter("action", "choice", {"mute", "unmute", "toggle"}, FALSE)>>
    ELSE <<>>

\* `name in parameters`
HasKey(ps, name) ==
    IF ps.kind = "list" THEN name \in ps.items ELSE name \in DOMAIN ps.d

Verdict(valid, msg, raised) == [valid |-> valid, msg |-> msg, raised |-> raised]

\* `value < bound` and `value > bound` of Python numbers.
Less(value, bound) == ~value.nan /\ value.n < bound
Greater(value, bound) == ~value.nan /\ value.n > bound

\* The checks validate_parameters makes on one present value.
validate_value(param, value) ==
    IF param.type = "number"
    THEN IF value.t \notin {"num", "bool"} THEN Verdict(FALSE, <<"number", param.name>>, FALSE)
         ELSE IF param.min_value.set /\ Less(value, param.min_value.v)
         THEN Verdict(FALSE, <<"min", param.name>>, FALSE)
         ELSE IF param.max_value.set /\ Greater(value, param.max_value.v)
         THEN Verdict(FALSE, <<"max", param.name>>, FALSE)
         ELSE Verdict(TRUE, <<>>, FALSE)
    ELSE IF param.type = "boolean"
    THEN IF value.t # "bool" THEN Verdict(FALSE, <<"boolean", param.name>>, FALSE)
         ELSE Verdict(TRUE, <<>>, FALSE)
    ELSE IF param.type = "choice"
    THEN IF value.t # "str" \/ value.s \notin param.choices
         THEN Verdict(FALSE, <<"choice", param.name>>, FALSE)
         ELSE Verdict(TRUE, <<>>, FALSE)
    ELSE IF param.type = "string"
    THEN IF value.t # "str" THEN Verdict(FALSE, <<"string", param.name>>, FALSE)
         ELSE Verdict(TRUE, <<>>, FALSE)
    ELSE Verdict(TRUE, <<>>, FALSE)

RECURSIVE validate_from(_, _, _)
\* The loop of validate_parameters from declared parameter i on.  Indexing
\* a value that is no mapping by a name raises TypeError.
validate_from(decl, ps, i) ==
    IF i > Len(decl) THEN Verdict(TRUE, <<>>, FALSE)
    ELSE IF decl[i].required /\ ~HasKey(ps, decl[i].name)
    THEN Verdict(FALSE, <<"missing", decl[i].name>>, FALSE)
    ELSE IF ~HasKey(ps, decl[i].name) THEN validate_from(decl, ps, i + 1)
    ELSE IF ps.kind = "list" THEN Verdict(FALSE, <<>>, TRUE)
    ELSE LET v == validate_value(decl[i], ps.d[decl[i].name])
         IN  IF v.valid THEN validate_from(decl, ps, i + 1) ELSE v

\* BaseAction.validate_parameters
validate_parameters(id, ps) == validate_from(parameters_of(id), ps, 1)

\* What the operating system does with the request an action makes: it is
\* carried out, it fails with the error the utility layer expects, or the
\* program to run is missing altogether.
EnvOutcomes == {"ok", "error", "missing"}

\* What a call gives: the value returned, whether it raised, the system
\* afterwards, and whether the body of an action was run.
Outcome(ret, raised, sys) ==
    [ret |-> ret, raised |-> raised, system |-> sys, ran |-> FALSE]

\* `parameters.get(name, "").strip()` of a validated dict
StrippedName(ps, name) ==
    IF name \in DOMAIN ps.d /\ ps.d[name].s \notin BlankStrings THEN ps.d[name].s ELSE ""

\* The execute method of each action, with the utility call it makes.
action_execute(id, ps, env, sys) ==
    IF id = "lock_screen"
    THEN IF env = "ok" THEN Outcome(PyTrue, FALSE, [sys EXCEPT !.locked = TRUE])
         ELSE IF env = "error" THEN Outcome(PyTrue, FALSE, sys)
         ELSE Outcome(PyFalse, FALSE, sys)
    ELSE IF id = "toggle_system_mute"
    THEN IF env = "ok" THEN Outcome(PyTrue, FALSE, [sys EXCEPT !.muted = ~@])
         ELSE Outcome(PyTrue, FALSE, sys)
    ELSE IF id = "toggle_active_app_mute" THEN Outcome(PyTrue, FALSE, sys)
    ELSE IF id = "toggle_main_window" THEN Outcome(PyFalse, FALSE, sys)
    ELSE IF id = "set_app_volume"
    THEN IF StrippedName(ps, "app_name") = "" THEN Outcome(PyFalse, FALSE, sys)
         ELSE Outcome(PyNone, FALSE, sys)
    ELSE IF id = "mute_app"
    THEN IF StrippedName(ps, "app_name") = "" THEN Outcome(PyFalse, FALSE, sys)
         ELSE IF ps.d["action"].s \in {"mute", "unmute"} THEN Outcome(PyFalse, FALSE, sys)
         ELSE IF env = "ok" THEN Outcome(PyTrue, FALSE, sys)
         ELSE Outcome(PyFalse, FALSE, sys)
    ELSE Outcome(PyFalse, FALSE, sys)

\* execute_action that runs the action without validating its parameters.
registry_execute_action_unvalidated(id, ps, env, sys) ==
    IF id \notin ActionIds THEN Outcome(PyFalse, FALSE, sys)
    ELSE [action_execute(id, ps, env, sys) EXCEPT !.ran = TRUE]

\* ActionRegistry.execute_action
registry_execute_action(id, ps, env, sys) ==
    IF id \notin ActionIds THEN Outcome(PyFalse, FALSE, sys)
    ELSE LET v == validate_parameters(id, ps)
         IN  IF v.raised THEN Outcome(PyNone, TRUE, sys)
             ELSE IF ~v.valid THEN Outcome(PyFalse, FALSE, sys)
             ELSE [action_execute(id, ps, env, sys) EXCEPT !.ran = TRUE]

\* ActionManager.execute_action: the registry's answer, False if it raised.
am_execute_action(id, ps, env, sys) ==
    LET r == registry_execute_action(id, ps, env, sys)
    IN  IF r.raised THEN Outcome(PyFalse, FALSE, r.system) ELSE r

-----------------------------------------------------------------------------
(* Executing actions by id.                                                *)

ExecIds == ActionIds \cup {"nonexistent_action"}

Dict1(k, v) == [x \in {k} |-> v]
Dict2(k1, v1, k2, v2) == [x \in {k1, k2} |-> IF x = k1 THEN v1 ELSE v2]

\* The parameters execute_action is called with.
ExecParams ==
    {ParamsNone, ParamsDict(EmptyMap), ParamsList({"app_name", "volume"}),
     ParamsDict(Dict1("app_name", Str(""))),
     ParamsDict(Dict1("app_name", Num(5))),
     ParamsDict(Dict2("app_name", Str("chrome"), "volume", Num(5))),
     ParamsDict(Dict2("app_name", Str(" "), "volume", Num(5))),
     ParamsDict(Dict2("app_name", Str("chrome"), "volume", Num(11))),
     ParamsDict(Dict2("app_name", Str("chrome"), "volume", Num(0 - 1))),
     ParamsDict(Dict2("app_name", Str("chrome"), "volume", Bool(TRUE))),
     ParamsDict(Dict2("app_name", Str("chrome"), "volume", Str("loud"))),
     ParamsDict(Dict2("app_name", Str("chrome"), "action", Str("mute"))),
     ParamsDict(Dict2("app_name", Str("chrome"), "action", Str("toggle"))),
     ParamsDict(Dict2("app_name", Str("chrome"), "action", Str("bogus")))}

InitExec ==
    /\ config = Config(TRUE, <<>>)
    /\ file = config
    /\ QuietManager /\ QuietApp /\ QuietUi /\ QuietSystem
    /\ last = NoOp

ExecRecord(op, id, ps, env, r) ==
    [op |-> op, id |-> id, ps |-> ps, env |-> env, ret |-> r.ret, raised |-> r.raised]

\* action_manager.execute_action(id, parameters)
ExecuteAction(id, ps, env) ==
    LET r == am_execute_action(id, ps, env, system)
    IN  /\ system' = r.system
        /\ last' = ExecRecord("ActionManager.execute_action", id, ps, env, r)
        /\ UNCHANGED <<cfgVars, mgrVars, appVars, uiVars>>

\* action_registry.execute_action(id, parameters)
RegistryExecuteAction(id, ps, env) ==
    LET r == registry_execute_action(id, ps, env, system)
    IN  /\ system' = r.system
        /\ last' = ExecRecord("ActionRegistry.execute_action", id, ps, env, r)
        /\ UNCHANGED <<cfgVars, mgrVars, appVars, uiVars>>

NextExec ==
    \/ \E id \in ExecIds, ps \in ExecParams, env \in EnvOutcomes :
           ExecuteAction(id, ps, env)
    \/ \E id \in ExecIds, ps \in ExecParams, env \in EnvOutcomes :
           RegistryExecuteAction(id, ps, env)

SpecExec == InitExec /\ [][NextExec]_vars

-----------------------------------------------------------------------------
(* Dispatch: key presses on the hook thread, tray clicks on the tray       *)
(* thread, the Qt event loop on the main thread.                           *)

\* shutdown() as the body of a callback; pend is the queue it posts to.
app_shutdown(isRunning, pend) ==
    IF isRunning THEN [running |-> FALSE, pending |-> Append(pend, "_do_shutdown")]
    ELSE [running |-> isRunning, pending |-> pend]

TrayCallbacks ==
    {"_on_tray_open", "_on_tray_settings", "_on_tray_exit", "_on_tray_left_click"}

\* One of the coordinator's tray callbacks, run by the given thread: exit
\* calls shutdown(), the others show the window.
RunCallback(cb, thread, pend) ==
    IF cb = "_on_tray_exit"
    THEN LET r == app_shutdown(app_running, pend)
         IN  /\ Len(r.pending) <= MaxPending
             /\ app_running' = r.running
             /\ pending' = r.pending
             /\ UNCHANGED <<window_visible, uiCalls>>
    ELSE /\ window_visible' = TRUE
         /\ uiCalls' = uiCalls \cup {UiCall("show", thread)}
         /\ pending' = pend
         /\ UNCHANGED app_running

\* What one press does: the calls made to ActionManager.execute_action, its
\* answer, whether an action body ran, the system and the window afterwards,
\* and the window method called.
Pressed(forwarded, r, visible, call) ==
    [forwarded |-> forwarded, ret |-> r.ret, ran |-> r.ran, system |-> r.system,
     window_visible |-> visible, call |-> call]

\* _on_hotkey_pressed that hands every id to the action manager.
on_hotkey_pressed_forward_all(action_name, env, sys, visible) ==
    Pressed(1, am_execute_action(action_name, ParamsNone, env, sys), visible,
            "add_log_message")

\* _on_hotkey_pressed(action_name): toggle_main_window toggles the window
\* and returns; any other id goes to action_manager.execute_action(action_name)
\* and the outcome is logged in the window.
on_hotkey_pressed(action_name, env, sys, visible) ==
    IF action_name = "toggle_main_window"
    THEN Pressed(0, Outcome(PyNone, FALSE, sys), ~visible, "toggle_visibility")
    ELSE Pressed(1, am_execute_action(action_name, ParamsNone, env, sys), visible,
                 "add_log_message")

\* _on_hotkey_pressed(action_name), called by the keyboard library's hook
\* thread through handler k of the combination.
HotkeyPress(c, k, env) ==
    /\ k \in 1..Len(osHooks[c])
    /\ osHooks[c][k] = "toggle_main_window" => env = "ok"
    /\ \E r \in {on_hotkey_pressed(osHooks[c][k], env, system, window_visible)} :
          /\ system' = r.system
          /\ window_visible' = r.window_visible
          /\ uiCalls' = uiCalls \cup {UiCall(r.call, "hook")}
          /\ last' = [op |-> "_on_hotkey_pressed", action |-> osHooks[c][k],
                      ret |-> r.ret, forwarded |-> r.forwarded, ran |-> r.ran]
    /\ UNCHANGED <<cfgVars, mgrVars, appVars, pending>>

\* A click on a tray menu item, handled on the tray thread by
\* _execute_callback_on_main_thread: the callback is queued for the main
\* thread, or called on the spot when queuing is not possible.
TrayClick(cb, direct) ==
    /\ loop = "exec"
    /\ IF direct THEN RunCallback(cb, "tray", pending)
       ELSE /\ Len(pending) < MaxPending
            /\ pending' = Append(pending, cb)
            /\ UNCHANGED <<app_running, window_visible, uiCalls>>
    /\ last' = [op |-> "tray_click", action |-> cb, ret |-> PyNone]
    /\ UNCHANGED <<cfgVars, mgrVars, loop, ui_hotkeys, in_shutdown, system>>

\* The event loop delivers a queued tray callback on the main thread.
UiLoopStep ==
    /\ loop = "exec"
    /\ pending # <<>>
    /\ Head(pending) \in TrayCallbacks
    /\ RunCallback(Head(pending), "main", Tail(pending))
    /\ last' = [op |-> "invoke_callback", action |-> Head(pending), ret |-> PyNone]
    /\ UNCHANGED <<cfgVars, mgrVars, loop, ui_hotkeys, in_shutdown, system>>

NextDispatch ==
    \/ \E rejected \in RejectSets, minimized \in BOOLEAN : AppStart(rejected, minimized)
    \/ \E c \in GoodCombos, k \in 1..MaxHooks, env \in EnvOutcomes : HotkeyPress(c, k, env)
    \/ \E cb \in TrayCallbacks, direct \in BOOLEAN : TrayClick(cb, direct)
    \/ UiLoopStep
    \/ AppShutdown
    \/ AppDoShutdown
    \/ ListenerExit

SpecDispatch == Init /\ [][NextDispatch]_vars

-----------------------------------------------------------------------------
(* Properties of the coordinator, of dispatch and of action execution.     *)

EditOps == {"_add_hotkey", "_modify_hotkey", "_remove_hotkey"}

\* The bindings of a configuration that are enabled and valid and that the
\* OS accepted, each with its configured action.
AcceptedBindings(cfg, rejected) ==
    LET objs == cm_get_hotkeys(cfg)
        acc == Accepted(objs, rejected)
    IN  [h \in {objs[i].hotkey : i \in acc} |->
            objs[CHOOSE i \in acc : objs[i].hotkey = h].action]

\* C5: after every completed coordinator edit and after start,
\* get_registered_hotkeys is exactly the enabled valid bindings of the
\* configuration that the OS accepted, each mapped to its configured action:
\* nothing absent from the configuration, nothing that failed to register.
C5_RegisteredIsAcceptedConfig ==
    (last.op \in EditOps \cup {"start"} /\ ~last.raised) =>
        hm_get_registered_hotkeys(ThisManager) = AcceptedBindings(config, last.rejected)

\* C8: no UI-owned operation (toggle_visibility, add_log_message, show, ...)
\* is ever performed by a thread other than the UI thread, whether it comes
\* from a hotkey press or from a tray callback, fallback paths included.
C8_UiOnlyOnUiThread ==
    \A u \in uiCalls : u.thread = "main"

ExecOps == {"ActionManager.execute_action", "ActionRegistry.execute_action"}

\* C9: execute_action never raises and answers false whenever the action
\* did not succeed: for an unknown id, for parameters that fail validation,
\* and when the action's execution fails or throws; execute of
\* "nonexistent_action" with {} and of "set_app_volume" with an empty
\* app_name are false.
C9_ExecuteIsFailSoft ==
    last.op \in ExecOps =>
        /\ ~last.raised
        /\ last.ret # PyTrue => last.ret = PyFalse
        /\ last.id \notin ActionIds => last.ret = PyFalse
        /\ (last.id \in ActionIds /\ ~validate_parameters(last.id, last.ps).valid)
               => last.ret = PyFalse
        /\ (last.id = "set_app_volume"
            /\ last.ps = ParamsDict(Dict1("app_name", Str(""))))
               => last.ret = PyFalse

\* C10: after an edit in which some re-registration failed, the mapping the
\* coordinator passed to main_window.update_hotkeys equals the bindings
\* stored in the configuration.
C10_UiShowsConfiguration ==
    (/\ last.op \in EditOps
     /\ ~last.raised
     /\ last.rejected \cap Eligible(cm_get_hotkeys(config)) # {}) =>
        ui_hotkeys = cm_get_hotkeys_dict(config)

-----------------------------------------------------------------------------
(* config/settings.py: migration, loading and the settings mapping.        *)

MaxLegacy == 2      \* most keys of a legacy hotkeys mapping

RECURSIVE MigratedEntries(_)
\* The loop of _migrate_config: one Hotkey per item of the mapping, enabled,
\* in the order of the items.
MigratedEntries(items) ==
    IF items = <<>> THEN <<>>
    ELSE <<Hotkey_to_dict([hotkey |-> Head(items).key, action |-> Head(items).value,
                           enabled |-> TRUE])>>
         \o MigratedEntries(Tail(items))

\* _migrate_config without the isinstance test: rebuilds the list always.
cm_migrate_config_always(cfg) ==
    [cfg EXCEPT !.hotkeys = MigratedEntries(cfg.legacy), !.isDict = FALSE,
                !.legacy = <<>>, !.actions = FALSE]

\* _migrate_config that keeps the obsolete actions section.
cm_migrate_config_keeps_actions(cfg) ==
    IF cfg.present /\ cfg.isDict
    THEN [cfg EXCEPT !.hotkeys = MigratedEntries(cfg.legacy), !.isDict = FALSE,
                     !.legacy = <<>>]
    ELSE cfg

\* _migrate_config: a hotkeys mapping becomes a list and the actions key
\* goes; any other configuration is returned as it is.
cm_migrate_config(cfg) ==
    IF cfg.present /\ cfg.isDict
    THEN [cfg EXCEPT !.hotkeys = MigratedEntries(cfg.legacy), !.isDict = FALSE,
                     !.legacy = <<>>, !.actions = FALSE]
    ELSE cfg

\* update_setting: creates the settings mapping if absent, sets the key, saves.
cm_update_setting(cfg, fl, key, value) ==
    LET new == [cfg EXCEPT !.hasSettings = TRUE, !.settings = Put(cfg.settings, key, value)]
    IN  Store(new, save_config(new), FALSE)

\* config.json when it does not exist, when it is text that is no JSON
\* (json.JSONDecodeError), and when its bytes are no text in the encoding
\* open() reads with (UnicodeDecodeError).
MissingFile == [missing |-> TRUE]
CorruptFile == [corrupt |-> TRUE]
UndecodableFile == [corrupt |-> TRUE, undecodable |-> TRUE]

FileExists(fl) == "missing" \notin DOMAIN fl
FileParses(fl) == "corrupt" \notin DOMAIN fl
FileDecodes(fl) == "undecodable" \notin DOMAIN fl

\* _load_config: no file, the default is migrated, saved and returned; a file
\* that parses is migrated and returned; one that is no JSON gives the
\* migrated default and is left as it is; the error of one that does not
\* decode is not among those caught, so the call raises.
cm_load_config(fl, default_config) ==
    IF ~FileExists(fl)
    THEN Store(cm_migrate_config(default_config),
               save_config(cm_migrate_config(default_config)), FALSE)
    ELSE IF FileParses(fl) THEN Store(cm_migrate_config(fl), fl, FALSE)
    ELSE IF ~FileDecodes(fl) THEN Store(default_config, fl, TRUE)
    ELSE Store(cm_migrate_config(default_config), fl, FALSE)

\* Setting keys and values.
SettingKeys == {"start_minimized"}
SettingValues == BOOLEAN
SettingMaps == UNION {[K -> SettingValues] : K \in SUBSET SettingKeys}

\* The items of a legacy hotkeys mapping: distinct keys, in insertion order.
LegacyItems ==
    {t \in SeqsUpTo([key : HotkeyStrings, value : ActionStrings], MaxLegacy) :
        \A i, j \in 1..Len(t) : t[i].key = t[j].key => i = j}

\* The settings key: absent, or present with a mapping.
SettingsShapes ==
    {[has |-> FALSE, m |-> EmptyMap]} \cup {[has |-> TRUE, m |-> m] : m \in SettingMaps}

\* The configurations json.load can give: in list form, in the legacy
\* mapping form, or with no hotkeys key; with or without the actions and
\* settings keys.
RawConfigs ==
    {FullConfig(TRUE, hks, FALSE, <<>>, a, st.has, st.m) :
        hks \in {t \in SeqsUpTo(HotkeyObjects, MaxInit) : UniqueCombos(t)},
        a \in BOOLEAN, st \in SettingsShapes}
    \cup {FullConfig(TRUE, <<>>, TRUE, items, a, st.has, st.m) :
        items \in LegacyItems, a \in BOOLEAN, st \in SettingsShapes}
    \cup {FullConfig(FALSE, <<>>, FALSE, <<>>, a, st.has, st.m) :
        a \in BOOLEAN, st \in SettingsShapes}

-----------------------------------------------------------------------------
(* Migration on its own.                                                   *)

InitMigrate ==
    /\ config \in RawConfigs
    /\ file = config
    /\ QuietManager /\ QuietApp /\ QuietUi /\ QuietSystem
    /\ last = NoOp

\* self._migrate_config(config)
MigrateConfig ==
    /\ config' = cm_migrate_config(config)
    /\ last' = [op |-> "_migrate_config", pre |-> config]
    /\ UNCHANGED <<file, mgrVars, appVars, uiVars, system>>

NextMigrate == MigrateConfig

SpecMigrate == InitMigrate /\ [][NextMigrate]_vars

\* C13: migration is idempotent, migrate(migrate(c)) = migrate(c) for every
\* configuration c, and a configuration whose hotkeys are already a list is
\* returned unchanged.
C13_MigrationIsIdempotent ==
    last.op = "_migrate_config" =>
        /\ cm_migrate_config(config) = config
        /\ (last.pre.present /\ ~last.pre.isDict) => config = last.pre

\* C13 witness: the second migration of a configuration that was read in the
\* legacy form with two bindings.
C13_Witness ==
    /\ last.op = "_migrate_config"
    /\ last.pre = config
    /\ file.isDict /\ Len(file.legacy) = 2
    /\ Len(config.hotkeys) = 2

\* C14: migrating a legacy configuration (hotkeys a mapping combination ->
\* action) gives a list with exactly one entry {hotkey, action, enabled=true}
\* per legacy key, every entry enabled, no actions key, and the settings
\* section as it was.
C14_LegacyMigration ==
    (last.op = "_migrate_config" /\ last.pre.present /\ last.pre.isDict) =>
        /\ ~config.isDict
        /\ Len(config.hotkeys) = Len(last.pre.legacy)
        /\ \A i \in 1..Len(last.pre.legacy) :
               /\ Cardinality({j \in 1..Len(config.hotkeys) :
                      config.hotkeys[j].hotkey = last.pre.legacy[i].key}) = 1
               /\ \E j \in 1..Len(config.hotkeys) :
                      config.hotkeys[j] = [hotkey |-> last.pre.legacy[i].key,
                                           action |-> last.pre.legacy[i].value,
                                           enabled |-> TRUE]
        /\ \A j \in 1..Len(config.hotkeys) : config.hotkeys[j].enabled
        /\ ~config.actions
        /\ config.hasSettings = last.pre.hasSettings
        /\ config.settings = last.pre.settings

\* C14 witness: a legacy configuration with two bindings, an actions section
\* and settings has been migrated.
C14_Witness ==
    /\ last.op = "_migrate_config"
    /\ last.pre.isDict /\ Len(last.pre.legacy) = 2
    /\ last.pre.actions
    /\ last.pre.hasSettings /\ DOMAIN last.pre.settings # {}
    /\ Len(config.hotkeys) = 2

-----------------------------------------------------------------------------
(* The configuration store from its construction on: load, the hotkey      *)
(* mutations and update_setting.                                           *)

\* The bundled default_config.json: in list form, or still in the legacy form.
DefaultConfigs ==
    {FullConfig(TRUE, <<[hotkey |-> "ctrl+a", action |-> "toggle_main_window",
                         enabled |-> TRUE]>>, FALSE, <<>>, FALSE, TRUE,
                [k \in SettingKeys |-> TRUE]),
     FullConfig(TRUE, <<>>, TRUE, <<[key |-> "ctrl+a", value |-> "lock_screen"]>>,
                TRUE, TRUE, EmptyMap)}

\* config.json as ConfigManager() finds it.
StoreFiles ==
    {MissingFile, CorruptFile}
    \cup {c \in RawConfigs : c.isDict => Len(c.legacy) = 1}

\* ConfigManager(): self.config = self._load_config()
InitStore ==
    /\ \E fl \in StoreFiles, d \in DefaultConfigs :
           /\ config = cm_load_config(fl, d).config
           /\ file = cm_load_config(fl, d).file
    /\ QuietManager /\ QuietApp /\ QuietUi /\ QuietSystem
    /\ last = NoOp

\* update_setting(key, value)
UpdateSetting(key, value) ==
    LET r == cm_update_setting(config, file, key, value)
    IN  /\ config' = r.config
        /\ file' = r.file
        /\ last' = [op |-> "update_setting",
                    hk |-> [hotkey |-> "", action |-> "", enabled |-> FALSE],
                    old |-> key, pre |-> config, preFile |-> file, raised |-> r.raised]
        /\ UNCHANGED <<mgrVars, appVars, uiVars, system>>

\* The Hotkey objects the window builds: always enabled.
StoreObjects == {hk \in HotkeyObjects : hk.enabled}

NextStore ==
    \/ \E hk \in StoreObjects : AddHotkey(hk)
    \/ \E c \in HotkeyStrings, hk \in StoreObjects : UpdateHotkey(c, hk)
    \/ \E c \in HotkeyStrings : RemoveHotkey(c)
    \/ \E k \in SettingKeys, v \in SettingValues : UpdateSetting(k, v)

SpecStore == InitStore /\ [][NextStore]_vars

StoreOps == {"add_hotkey", "update_hotkey", "remove_hotkey", "update_setting"}

\* C11: every mutation is persisted at once: after an add_hotkey,
\* update_hotkey, remove_hotkey or update_setting call that changed the
\* in-memory configuration has returned, the file holds exactly the in-memory
\* configuration.
C11_MutationsArePersisted ==
    (last.op \in StoreOps /\ ~last.raised /\ config # last.pre) => file = config

\* C11 witness: a mutation changed a configuration whose file was not up to
\* date (a legacy file, migrated in memory only), and another one changed
\* only the settings.
C11_Witness ==
    /\ last.op \in StoreOps /\ ~last.raised
    /\ config # last.pre
    /\ last.preFile # last.pre
    /\ FileExists(last.preFile) /\ FileParses(last.preFile)
    /\ config.hotkeys # <<>>

\* C12: add_hotkey and update_hotkey validate before they change anything:
\* with an empty or whitespace-only combination or action the call raises
\* and the in-memory configuration and the file are as before; update_hotkey
\* does not remove the old binding.
C12_InvalidInputChangesNothing ==
    (/\ last.op \in {"add_hotkey", "update_hotkey"}
     /\ (last.hk.hotkey \in BlankStrings \/ last.hk.action \in BlankStrings)) =>
        /\ last.raised
        /\ config = last.pre
        /\ file = last.preFile

\* C12 witness: an update_hotkey of a bound combination with a blank action.
C12_Witness ==
    /\ last.op = "update_hotkey"
    /\ last.hk.action \in BlankStrings
    /\ last.hk.hotkey \notin BlankStrings
    /\ EntriesFor(last.pre, last.old) # {}
    /\ last.raised

-----------------------------------------------------------------------------
(* utils/shortcut_utils.py: ShortcutConverter.  A string is a sequence of  *)
(* pieces: a piece is one character ("a", "+", " ") or the spelling of a   *)
(* longer key name ("ctrl", "page up", "F1"), which holds no "+" and no    *)
(* outer blank.  A Qt shortcut is a list of such strings.                  *)

MaxKeys == 3        \* most keys in one combination

QT_TO_KEYBOARD_MAP ==
    [k \in {"Ctrl", "Shift", "Alt", "Meta", "Space", "Tab", "Enter", "Escape",
            "Backspace", "Delete", "Home", "End", "PageUp", "PageDown", "ArrowUp",
            "ArrowDown", "ArrowLeft", "ArrowRight", "Insert", "Pause", "PrintScreen",
            "ScrollLock", "CapsLock", "NumLock"} |->
        CASE k = "Ctrl" -> "ctrl" [] k = "Shift" -> "shift" [] k = "Alt" -> "alt"
          [] k = "Meta" -> "windows" [] k = "Space" -> "space" [] k = "Tab" -> "tab"
          [] k = "Enter" -> "enter" [] k = "Escape" -> "esc"
          [] k = "Backspace" -> "backspace" [] k = "Delete" -> "delete"
          [] k = "Home" -> "home" [] k = "End" -> "end" [] k = "PageUp" -> "page up"
          [] k = "PageDown" -> "page down" [] k = "ArrowUp" -> "up"
          [] k = "ArrowDown" -> "down" [] k = "ArrowLeft" -> "left"
          [] k = "ArrowRight" -> "right" [] k = "Insert" -> "insert"
          [] k = "Pause" -> "pause" [] k = "PrintScreen" -> "print screen"
          [] k = "ScrollLock" -> "scroll lock" [] k = "CapsLock" -> "caps lock"
          [] k = "NumLock" -> "num lock"]

\* {v: k for k, v in QT_TO_KEYBOARD_MAP.items()}
KEYBOARD_TO_QT_MAP ==
    [v \in {QT_TO_KEYBOARD_MAP[k] : k \in DOMAIN QT_TO_KEYBOARD_MAP} |->
        CHOOSE k \in DOMAIN QT_TO_KEYBOARD_MAP : QT_TO_KEYBOARD_MAP[k] = v]

\* Pieces that are one character long, and the function keys.
LowerChars == {"a", "1", "-", "+", " "}
UpperChars == {"A"}
SingleChars == LowerChars \cup UpperChars
LowerFKeys == {"f1", "f12"}
UpperFKeys == {"F1", "F12"}

\* str.lower() and str.upper() of a piece.
Lower(c) ==
    CASE c = "A" -> "a" [] c = "F1" -> "f1" [] c = "F12" -> "f12"
      [] c \in {"Ctrl", "CTRL"} -> "ctrl" [] c = "Windows" -> "windows" [] OTHER -> c
Upper(c) ==
    CASE c = "a" -> "A" [] c = "f1" -> "F1" [] c = "f12" -> "F12" [] OTHER -> c

\* A result that may be None.
Some(v) == [ok |-> TRUE, v |-> v]
None == [ok |-> FALSE, v |-> <<>>]

RECURSIVE Join(_)
\* "+".join(keys)
Join(keys) ==
    IF keys = <<>> THEN <<>>
    ELSE IF Len(keys) = 1 THEN <<Head(keys)>>
    ELSE <<Head(keys), "+">> \o Join(Tail(keys))

RECURSIVE SplitPlus(_, _)
\* s.split("+"), cur being the part read since the last "+".
SplitPlus(str, cur) ==
    IF str = <<>> THEN <<cur>>
    ELSE IF Head(str) = "+" THEN <<cur>> \o SplitPlus(Tail(str), <<>>)
    ELSE SplitPlus(Tail(str), Append(cur, Head(str)))

RECURSIVE Strip(_)
\* key.strip()
Strip(str) ==
    IF str = <<>> THEN <<>>
    ELSE IF Head(str) = " " THEN Strip(Tail(str))
    ELSE IF str[Len(str)] = " " THEN Strip(SubSeq(str, 1, Len(str) - 1))
    ELSE str

RECURSIVE qt_to_keyboard_from(_, _)
\* The loop of qt_to_keyboard over the keys not yet converted.
qt_to_keyboard_from(keys, converted) ==
    IF keys = <<>> THEN Some(Join(converted))
    ELSE LET key == Head(keys)
         IN  IF key \in DOMAIN QT_TO_KEYBOARD_MAP
             THEN qt_to_keyboard_from(Tail(keys),
                                      Append(converted, QT_TO_KEYBOARD_MAP[key]))
             ELSE IF key \in SingleChars
             THEN qt_to_keyboard_from(Tail(keys), Append(converted, Lower(key)))
             ELSE IF key \in UpperFKeys
             THEN qt_to_keyboard_from(Tail(keys), Append(converted, Lower(key)))
             ELSE None

\* qt_to_keyboard(qt_shortcut); the argument may be None.
qt_to_keyboard(qt_shortcut) ==
    IF ~qt_shortcut.ok \/ qt_shortcut.v = <<>> THEN None
    ELSE qt_to_keyboard_from(qt_shortcut.v, <<>>)

RECURSIVE keyboard_to_qt_from(_, _)
\* The loop of keyboard_to_qt over the parts of the split string.
keyboard_to_qt_from(keys, converted) ==
    IF keys = <<>> THEN Some(converted)
    ELSE LET key == Strip(Head(keys))
         IN  IF Len(key) = 1 /\ key[1] \in DOMAIN KEYBOARD_TO_QT_MAP
             THEN keyboard_to_qt_from(Tail(keys),
                                      Append(converted, KEYBOARD_TO_QT_MAP[key[1]]))
             ELSE IF Len(key) = 1 /\ key[1] \in SingleChars
             THEN keyboard_to_qt_from(Tail(keys), Append(converted, Upper(key[1])))
             ELSE IF Len(key) = 1 /\ key[1] \in LowerFKeys \cup UpperFKeys
             THEN keyboard_to_qt_from(Tail(keys), Append(converted, Upper(key[1])))
             ELSE IF Len(key) = 1 /\ Lower(key[1]) = "windows"
             THEN keyboard_to_qt_from(Tail(keys), Append(converted, "Meta"))
             ELSE None

\* keyboard_to_qt(keyboard_shortcut)
keyboard_to_qt(keyboard_shortcut) ==
    IF keyboard_shortcut = <<>> THEN None
    ELSE keyboard_to_qt_from(SplitPlus(keyboard_shortcut, <<>>), <<>>)

\* Key tokens of the keyboard-library format: modifiers, named keys, single
\* characters (the symbol keys "-" and "+" among them) and function keys.
KeyTokens == {"ctrl", "shift", "windows", "esc", "page up", "a", "1", "-", "+", "f1"}

\* The combinations of one to MaxKeys tokens, written with "+" between them.
KeyCombinations == {Join(t) : t \in SeqsUpTo(KeyTokens, MaxKeys) \ {<<>>}}

InitShortcut ==
    /\ config = Config(TRUE, <<>>)
    /\ file = config
    /\ QuietManager /\ QuietApp /\ QuietUi /\ QuietSystem
    /\ \E x \in KeyCombinations : last = [op |-> "stored", x |-> x]

\* The window converts a stored combination for display.
KeyboardToQt ==
    /\ last.op = "stored"
    /\ last' = [op |-> "keyboard_to_qt", x |-> last.x, qt |-> keyboard_to_qt(last.x)]
    /\ UNCHANGED <<cfgVars, mgrVars, appVars, uiVars, system>>

\* ... and converts what is displayed back.
QtToKeyboard ==
    /\ last.op = "keyboard_to_qt"
    /\ last' = [op |-> "qt_to_keyboard", x |-> last.x, qt |-> last.qt,
                back |-> qt_to_keyboard(last.qt)]
    /\ UNCHANGED <<cfgVars, mgrVars, appVars, uiVars, system>>

NextShortcut == KeyboardToQt \/ QtToKeyboard

SpecShortcut == InitShortcut /\ [][NextShortcut]_vars

\* C15: the conversion round-trips: qt_to_keyboard(keyboard_to_qt(x)) = x for
\* every supported key token x and every combination of supported tokens,
\* single-character symbol keys such as "+" included.
C15_ConversionRoundTrips ==
    last.op = "qt_to_keyboard" => last.back = Some(last.x)


-----------------------------------------------------------------------------
(* Parameter validation on its own: an action class declares parameters   *)
(* and validate_parameters is called with a parameters argument.           *)

MaxParams == 2

\* Declared parameters: one name per type, required or optional, a number
\* with each bound set or None.
DeclaredParameters ==
    {ActionParameterOf("volume", "number", r, {}, mn, mx) :
        r \in BOOLEAN, mn \in {NoBound, Bound(0)}, mx \in {NoBound, Bound(10)}}
    \cup {ActionParameterOf("app_name", "string", r, {}, NoBound, NoBound) : r \in BOOLEAN}
    \cup {ActionParameterOf("enabled", "boolean", r, {}, NoBound, NoBound) : r \in BOOLEAN}
    \cup {ActionParameterOf("action", "choice", r, {"mute", "unmute", "toggle"},
                            NoBound, NoBound) : r \in BOOLEAN}

\* The `parameters` property of an action class: a list of declarations
\* under distinct names.
Declarations ==
    {d \in SeqsUpTo(DeclaredParameters, MaxParams) :
        /\ Len(d) >= 1
        /\ \A i, j \in 1..Len(d) : d[i].name = d[j].name => i = j}

\* The values a caller supplies.
ParamValues ==
    {Num(0 - 1), Num(0), Num(5), Num(10), Num(11), NaN, Bool(TRUE), Bool(FALSE),
     Str("chrome"), Str("mute")}

NamesOf(decl) == {decl[i].name : i \in 1..Len(decl)}

\* None, or a dict with values under some of the declared names.
ParametersFor(decl) ==
    {ParamsNone} \cup
    UNION {{ParamsDict(d) : d \in [names -> ParamValues]} : names \in SUBSET NamesOf(decl)}

InitValidate ==
    /\ config = Config(TRUE, <<>>)
    /\ file = config
    /\ QuietManager /\ QuietApp /\ QuietUi /\ QuietSystem
    /\ \E decl \in Declarations : \E ps \in ParametersFor(decl) :
          last = [op |-> "declared", decl |-> decl, ps |-> ps]

\* action.validate_parameters(parameters)
ValidateParameters ==
    /\ last.op = "declared"
    /\ last' = [op |-> "validate_parameters", decl |-> last.decl, ps |-> last.ps,
                result |-> validate_from(last.decl, last.ps, 1)]
    /\ UNCHANGED <<cfgVars, mgrVars, appVars, uiVars, system>>

NextValidate == ValidateParameters

SpecValidate == InitValidate /\ [][NextValidate]_vars

\* The value supplied under a declared name is a number.
SuppliesNumber(param, ps) ==
    /\ param.type = "number"
    /\ HasKey(ps, param.name)
    /\ ps.d[param.name].t = "num"

\* min_value <= v <= max_value, an absent bound imposing no limit.
WithinBounds(param, v) ==
    /\ param.min_value.set => (~v.nan /\ param.min_value.v <= v.n)
    /\ param.max_value.set => (~v.nan /\ v.n <= param.max_value.v)

\* C16: a number parameter accepts exactly the values v with
\* min_value <= v <= max_value, bounds inclusive and an absent bound no
\* limit; a value above max_value fails with the message that cites the
\* upper bound, a value below min_value with the one that cites the lower.
C16_NumberBoundsAreInclusive ==
    (last.op = "validate_parameters" /\ Len(last.decl) = 1
        /\ SuppliesNumber(last.decl[1], last.ps))
    => LET param == last.decl[1]
           v == last.ps.d[param.name]
       IN  /\ last.result.valid <=> WithinBounds(param, v)
           /\ (param.min_value.set /\ ~v.nan /\ v.n < param.min_value.v)
                 => last.result.msg = <<"min", param.name>>
           /\ (param.max_value.set /\ ~v.nan /\ v.n > param.max_value.v
                 /\ ~(param.min_value.set /\ v.n < param.min_value.v))
                 => last.result.msg = <<"max", param.name>>

\* The declared type and the type of the value differ: a number is an int
\* or a float and no bool, a boolean a bool, a string a str.
TypeMismatch(param, v) ==
    \/ param.type = "number" /\ v.t # "num"
    \/ param.type = "boolean" /\ v.t # "bool"
    \/ param.type = "string" /\ v.t # "str"

\* The rules of parameter validation: a required parameter is present, a
\* present value has the declared type, a number lies within its bounds and
\* a choice is one of the choices.
ViolatesRule(param, ps) ==
    IF ~HasKey(ps, param.name) THEN param.required
    ELSE LET v == ps.d[param.name]
         IN  \/ TypeMismatch(param, v)
             \/ param.type = "number" /\ ~WithinBounds(param, v)
             \/ param.type = "choice" /\ (v.t # "str" \/ v.s \notin param.choices)

Violators(decl, ps) == {i \in 1..Len(decl) : ViolatesRule(decl[i], ps)}

FirstViolator(decl, ps) ==
    CHOOSE i \in Violators(decl, ps) : \A j \in Violators(decl, ps) : i <= j

\* C17: parameters are checked in declaration order and the failure of the
\* first parameter that violates a rule is returned: a missing required
\* parameter is reported as missing even when a later parameter is invalid
\* too, and (True, "") is returned only when no declared parameter violates
\* a rule.
C17_FirstFailureWins ==
    last.op = "validate_parameters"
    => IF Violators(last.decl, last.ps) = {}
       THEN last.result = Verdict(TRUE, <<>>, FALSE)
       ELSE LET param == last.decl[FirstViolator(last.decl, last.ps)]
            IN  /\ ~last.result.valid
                /\ last.result.msg[2] = param.name
                /\ ~HasKey(last.ps, param.name)
                      => last.result.msg = <<"missing", param.name>>

\* C18: a present value whose type does not match the declared type is
\* rejected: a non-number, a bool included, for a number parameter, a
\* non-boolean for a boolean parameter and a non-string for a string
\* parameter, with the typed message of the parameter when it is the first
\* one declared.
C18_TypeMismatchIsRejected ==
    last.op = "validate_parameters"
    => \A i \in 1..Len(last.decl) :
          (HasKey(last.ps, last.decl[i].name)
              /\ TypeMismatch(last.decl[i], last.ps.d[last.decl[i].name]))
          => /\ ~last.result.valid
             /\ i = 1 => last.result.msg = <<last.decl[i].type, last.decl[i].name>>

-----------------------------------------------------------------------------
(* The listener.                                                           *)

\* C19: start_listener is idempotent: called while the listener is running
\* it starts no thread and changes no state.
C19_StartListenerIsIdempotent ==
    [][(running /\ last'.op = "start_listener" /\ ~last'.ret)
          => UNCHANGED <<cfgVars, mgrVars, appVars, uiVars, system>>]_vars

\* C19: start_listener has been called while the listener was running, with
\* a hotkey registered.
C19_Witness ==
    /\ last.op = "start_listener" /\ ~last.ret
    /\ running /\ listeners = 1
    /\ hotkeys # {}

-----------------------------------------------------------------------------
(* shutdown() statement by statement, called by several threads: the main  *)
(* thread (run()'s finally, a queued _on_tray_exit) and the tray thread    *)
(* (an _on_tray_exit called on the spot).                                  *)

ShutdownThreads == {"main", "tray"}

\* shutdown(), its first statement: `if not self.running: return`.
ShutdownEnter(t) ==
    /\ t \notin in_shutdown
    /\ in_shutdown' = IF app_running THEN in_shutdown \cup {t} ELSE in_shutdown
    /\ last' = [op |-> "shutdown", raised |-> FALSE, rejected |-> {}]
    /\ UNCHANGED <<cfgVars, mgrVars, app_running, loop, ui_hotkeys, uiVars, system>>

\* shutdown(), the rest: `self.running = False` and
\* `QTimer.singleShot(0, self._do_shutdown)`.
ShutdownSchedule(t) ==
    /\ t \in in_shutdown
    /\ Len(pending) < MaxPending
    /\ app_running' = FALSE
    /\ pending' = Append(pending, "_do_shutdown")
    /\ in_shutdown' = in_shutdown \ {t}
    /\ last' = [op |-> "singleShot", raised |-> FALSE, rejected |-> {}]
    /\ UNCHANGED <<cfgVars, mgrVars, loop, ui_hotkeys, window_visible, uiCalls, system>>

NextShutdown ==
    \/ \E rejected \in RejectSets, minimized \in BOOLEAN : AppStart(rejected, minimized)
    \/ \E t \in ShutdownThreads : ShutdownEnter(t)
    \/ \E t \in ShutdownThreads : ShutdownSchedule(t)
    \/ AppDoShutdown
    \/ ListenerExit

SpecShutdown == Init /\ [][NextShutdown]_vars

\* The teardowns scheduled so far: those waiting in the event loop and the
\* one that has quit it.
ScheduledTeardowns ==
    Cardinality({i \in DOMAIN pending : pending[i] = "_do_shutdown"})
        + (IF loop = "quit" THEN 1 ELSE 0)

\* C20: shutdown is idempotent: however many shutdown() calls follow one
\* start(), from whatever threads and however interleaved, the teardown
\* (_do_shutdown) is scheduled and performed at most once; and before
\* start() a shutdown() call does nothing.
C20_ShutdownIsIdempotent ==
    /\ ScheduledTeardowns <= 1
    /\ loop = "idle" => (pending = <<>> /\ in_shutdown = {} /\ ~app_running)

-----------------------------------------------------------------------------
(* Key presses: the application is started on a configuration whose        *)
(* bindings name any action id, and the bound keys are pressed.            *)

MaxBindings == 2

\* Enabled bindings of the combinations to the ids of the action modules and
\* to an id no module has.
PressObjects == [hotkey : GoodCombos, action : ExecIds, enabled : {TRUE}]

PressConfigs ==
    {Config(TRUE, s) : s \in {t \in SeqsUpTo(PressObjects, MaxBindings) : UniqueCombos(t)}}

InitPress ==
    /\ config \in PressConfigs
    /\ file = config
    /\ QuietManager /\ QuietApp /\ QuietUi /\ QuietSystem
    /\ last = NoOp

NextPress ==
    \/ \E rejected \in RejectSets, minimized \in BOOLEAN : AppStart(rejected, minimized)
    \/ \E c \in GoodCombos, k \in 1..MaxHooks, env \in EnvOutcomes : HotkeyPress(c, k, env)

SpecPress == InitPress /\ [][NextPress]_vars

\* C21: the dispatch callback never hands toggle_main_window to the action
\* registry: for that id it toggles the main window and nothing else, and
\* any other id goes through ActionManager.execute_action exactly once per
\* press.
C21_ToggleWindowStaysLocal ==
    last.op = "_on_hotkey_pressed" =>
        IF last.action = "toggle_main_window"
        THEN /\ last.forwarded = 0
             /\ ~last.ran
             /\ UiCall("toggle_visibility", "hook") \in uiCalls
        ELSE last.forwarded = 1

\* C21 witness: a key bound to toggle_main_window was pressed and the window
\* came up, with another key bound to a registry action.
C21_Witness ==
    /\ last.op = "_on_hotkey_pressed"
    /\ last.action = "toggle_main_window"
    /\ window_visible
    /\ \E c \in GoodCombos : osHooks[c] = <<"lock_screen">>

\* The actions that declare a required parameter.
NeedParameters == {id \in ActionIds : \E i \in 1..Len(parameters_of(id)) :
                                         parameters_of(id)[i].required}

\* C29: a press is dispatched with no parameters, so a binding to an action
\* that declares a required parameter (mute_app, set_app_volume) fails
\* parameter validation on every press: the action body is not run and the
\* press is reported as failed.
C29_PressWithoutParametersFails ==
    (last.op = "_on_hotkey_pressed" /\ last.action \in NeedParameters) =>
        /\ ~last.ran
        /\ last.ret = PyFalse
        /\ UiCall("add_log_message", "hook") \in uiCalls

\* C29 witness: the key bound to set_app_volume was pressed after the key
\* bound to mute_app.
C29_Witness ==
    /\ last.op = "_on_hotkey_pressed"
    /\ last.action = "set_app_volume"
    /\ \E c \in GoodCombos : osHooks[c] = <<"mute_app">>
    /\ NeedParameters = {"mute_app", "set_app_volume"}

-----------------------------------------------------------------------------
(* Batch registration: which handler carries which action, and which       *)
(* entries are left out.                                                   *)

\* The accepted entries of a list that bind combination c.
AcceptedFor(objs, rejected, c) == {i \in Accepted(objs, rejected) : objs[i].hotkey = c}

\* C22: every registered hotkey dispatches its own action id: the handler
\* register_hotkeys_from_objects installs for binding i calls the dispatch
\* function with binding i's action, not with the action of the binding
\* registered last.
C22_EachHotkeyFiresItsOwnAction ==
    last.op = "register_hotkeys_from_objects" =>
        \A c \in GoodCombos :
            LET mine == AcceptedFor(last.objs, last.rejected, c)
                before == Len(last.pre.osHooks[c])
            IN  /\ Len(osHooks[c]) = before + Cardinality(mine)
                /\ SubSeq(osHooks[c], 1, before) = last.pre.osHooks[c]
                /\ \A i \in mine :
                       osHooks[c][before + Cardinality({j \in mine : j <= i})]
                           = last.objs[i].action

\* C22 witness: two bindings with different actions were registered, the
\* one registered first on a combination without older handlers.
C22_Witness ==
    /\ last.op = "register_hotkeys_from_objects"
    /\ \E i, j \in Accepted(last.objs, last.rejected) :
           /\ i < j
           /\ last.objs[i].hotkey # last.objs[j].hotkey
           /\ last.objs[i].action # last.objs[j].action
           /\ osHooks[last.objs[i].hotkey] = <<last.objs[i].action>>
           /\ last.ret = 2

\* The entries register_hotkeys_from_objects must leave out: disabled ones
\* and ones that fail Hotkey.validate.
LeftOut(objs) == (1..Len(objs)) \ Eligible(objs)

\* C25: register_hotkeys_from_objects never registers a binding that is
\* disabled or fails Hotkey.validate: it is not tried and not counted, and
\* where no other entry of the list binds its combination, the combination
\* has the hooks and the live-map entries it had before the call.
C25_DisabledAndInvalidAreSkipped ==
    last.op = "register_hotkeys_from_objects" =>
        /\ last.tried \cap LeftOut(last.objs) = {}
        /\ last.ret <= Cardinality(Eligible(last.objs))
        /\ \A i \in LeftOut(last.objs) :
               LET c == last.objs[i].hotkey
               IN  (\A j \in Eligible(last.objs) : last.objs[j].hotkey # c) =>
                       /\ c \in hotkeys <=> c \in last.pre.hotkeys
                       /\ c \in DOMAIN callbacks <=> c \in DOMAIN last.pre.callbacks
                       /\ c \in DOMAIN osHooks => osHooks[c] = last.pre.osHooks[c]

\* C25 witness: a list with a disabled binding of a combination nothing else
\* binds, an invalid entry and a binding that was registered.
C25_Witness ==
    /\ last.op = "register_hotkeys_from_objects"
    /\ \E i, k \in LeftOut(last.objs) :
           /\ ~last.objs[i].enabled
           /\ last.objs[k].enabled
           /\ \A j \in Eligible(last.objs) : last.objs[j].hotkey # last.objs[i].hotkey
           /\ last.objs[i].hotkey \notin hotkeys
    /\ last.ret = 1

-----------------------------------------------------------------------------
(* Loading: ConfigManager() on whatever config.json holds.                 *)

\* config.json before the program runs.
LoadFiles == {MissingFile, CorruptFile, UndecodableFile} \cup RawConfigs

InitLoad ==
    /\ file \in LoadFiles
    /\ config = Config(FALSE, <<>>)
    /\ QuietManager /\ QuietApp /\ QuietUi /\ QuietSystem
    /\ \E d \in DefaultConfigs : last = [op |-> "installed", default_config |-> d]

\* self.config = self._load_config(); when it raises there is no
\* configuration.
LoadConfig ==
    /\ last.op = "installed"
    /\ \E r \in {cm_load_config(file, last.default_config)} :
          /\ config' = IF r.raised THEN config ELSE r.config
          /\ file' = r.file
          /\ last' = [op |-> "_load_config", default_config |-> last.default_config,
                      preFile |-> file, raised |-> r.raised]
    /\ UNCHANGED <<mgrVars, appVars, uiVars, system>>

NextLoad == LoadConfig

SpecLoad == InitLoad /\ [][NextLoad]_vars

\* C23: when config.json exists but cannot be parsed, loading does not
\* raise, gives the migrated bundled default as the configuration in memory
\* and does not write to the file.
C23_CorruptFileFallsBack ==
    (last.op = "_load_config" /\ FileExists(last.preFile) /\ ~FileParses(last.preFile))
    => /\ ~last.raised
       /\ config = cm_migrate_config(last.default_config)
       /\ ~config.isDict
       /\ file = last.preFile

-----------------------------------------------------------------------------
(* Clearing.                                                               *)

\* C24: after clear_all_hotkeys no combination is live: the hotkeys map and
\* the callbacks map are empty and no hook that register_hotkey installed
\* remains, whatever register_hotkey calls came before (failed ones and a
\* combination registered twice included).
C24_ClearLeavesNothingLive ==
    last.op = "clear_all_hotkeys" =>
        /\ hotkeys = {}
        /\ callbacks = EmptyMap
        /\ \A c \in DOMAIN osHooks : osHooks[c] = <<>>

-----------------------------------------------------------------------------
(* The listener thread: registrations, start_listener and stop_listener    *)
(* called in any order, and every thread in _listen_loop scheduled again   *)
(* and again (its sleep of 0.2 s always ends).                             *)

NextListener ==
    \/ \E h \in GoodCombos, r \in RegisterInputs, refused \in BOOLEAN :
           RegisterHotkey(h, r.callback, r.action_name, refused)
    \/ StartListener
    \/ StopListener
    \/ ListenerExit

SpecListener == InitManager /\ [][NextListener]_vars /\ WF_vars(ListenerExit)

\* C26: once stop_listener has cleared the running flag, the listener thread
\* leaves its loop and ends, unless start_listener is called again.
C26_ListenerTerminates ==
    (~running /\ listeners > 0) ~> (listeners = 0 \/ running)

\* C26 witness: stop_listener cleared the flag of a running listener and the
\* thread has ended.
C26_Witness ==
    /\ last.op = "stop_listener" /\ last.ret
    /\ ~running
    /\ listeners = 0

\* C28: at most one listener thread is alive at any time, in every
\* interleaving of start_listener, stop_listener and the loop, a stop
\* followed at once by a start included.
C28_AtMostOneListener == listeners <= 1

-----------------------------------------------------------------------------
(* Letter case of combination descriptors: the same descriptors written in *)
(* lower and in mixed case are added to the store and converted for        *)
(* display.                                                                *)

\* A descriptor as the string the store holds and as the pieces the
\* converter reads.
Descriptor(text, pieces) == [text |-> text, pieces |-> pieces]

CaseDescriptors ==
    {Descriptor("ctrl+a", <<"ctrl", "+", "a">>),
     Descriptor("Ctrl+A", <<"Ctrl", "+", "A">>),
     Descriptor("CTRL+a", <<"CTRL", "+", "a">>),
     Descriptor("windows+a", <<"windows", "+", "a">>),
     Descriptor("Windows+A", <<"Windows", "+", "A">>),
     Descriptor("f1", <<"f1">>),
     Descriptor("F1", <<"F1">>)}

\* str.lower() of a descriptor, piece by piece.
LowerPieces(pieces) == [i \in 1..Len(pieces) |-> Lower(pieces[i])]

\* str.lower() of a stored string.
LowerText(text) ==
    IF \E d \in CaseDescriptors : d.text = text
    THEN LET d == CHOOSE e \in CaseDescriptors : e.text = text
         IN  (CHOOSE e \in CaseDescriptors : e.pieces = LowerPieces(d.pieces)).text
    ELSE text

\* The descriptors the bindings are added under.
StoredDescriptors == {d \in CaseDescriptors : LowerText(d.text) = "ctrl+a"}

\* The window shows a descriptor: keyboard_to_qt(descriptor).
ConvertDescriptor(d) ==
    /\ last' = [op |-> "keyboard_to_qt", x |-> d.pieces, qt |-> keyboard_to_qt(d.pieces)]
    /\ UNCHANGED <<cfgVars, mgrVars, appVars, uiVars, system>>

NextCase ==
    \/ \E d \in StoredDescriptors, a \in ConfigActions :
           AddHotkey([hotkey |-> d.text, action |-> a, enabled |-> TRUE])
    \/ \E d \in CaseDescriptors : ConvertDescriptor(d)

SpecCase == InitManager /\ [][NextCase]_vars

\* C27: descriptors that differ only in letter case denote one combination:
\* the store keeps a single binding for them ("Ctrl+A" added after "ctrl+a"
\* leaves one entry) and keyboard_to_qt gives them the same display tokens.
C27_CaseInsensitiveDescriptors ==
    /\ \A i, j \in 1..Len(config.hotkeys) :
           LowerText(config.hotkeys[i].hotkey) = LowerText(config.hotkeys[j].hotkey)
               => i = j
    /\ last.op = "keyboard_to_qt" => last.qt = keyboard_to_qt(LowerPieces(last.x))

-----------------------------------------------------------------------------
(* Updating a binding.                                                     *)

\* C30: update_hotkey(old, new) removes the binding of old and installs new
\* under its own combination; when that combination differs from old and
\* belongs to a third binding, the third binding is replaced too and the
\* store holds one binding less; when old has no binding the call does what
\* add_hotkey(new) does.
C30_UpdateReplaces ==
    (last.op = "update_hotkey" /\ ~last.raised) =>
        /\ last.old # last.hk.hotkey => EntriesFor(config, last.old) = {}
        /\ Cardinality(EntriesFor(config, last.hk.hotkey)) = 1
        /\ \A i \in EntriesFor(config, last.hk.hotkey) :
               config.hotkeys[i] = Hotkey_to_dict(last.hk)
        /\ (/\ last.old # last.hk.hotkey
            /\ EntriesFor(last.pre, last.old) # {}
            /\ EntriesFor(last.pre, last.hk.hotkey) # {})
               => Len(config.hotkeys) = Len(last.pre.hotkeys) - 1
        /\ EntriesFor(last.pre, last.old) = {}
               => /\ config = cm_add_hotkey(last.pre, last.preFile, last.hk).config
                  /\ file = cm_add_hotkey(last.pre, last.preFile, last.hk).file

\* C30 witness: a binding was moved onto the combination of another binding,
\* which left one binding where there were two.
C30_Witness ==
    /\ last.op = "update_hotkey" /\ ~last.raised
    /\ last.old # last.hk.hotkey
    /\ EntriesFor(last.pre, last.old) # {}
    /\ EntriesFor(last.pre, last.hk.hotkey) # {}
    /\ Len(last.pre.hotkeys) = 2
    /\ Len(config.hotkeys) = 1


=============================================================================
